---- MODULE Spec2Model ----
(***************************************************************************)
(* Model of the AI conversation gateway of the healingherb backend:        *)
(*   - AIRateLimiter (utils/ai_utils.py), the per-user fixed-window        *)
(*     counter kept in process memory,                                     *)
(*   - the POST /chat handler (routes/ai.py) with its decorators           *)
(*     (middleware.py), its storage table ai_chat_messages (models.py)     *)
(*     and the completion client call_gemini_api (utils/ai_utils.py),      *)
(*   - the DELETE /history and POST /feedback handlers (routes/ai.py)      *)
(*     with the table ai_feedback (models.py).                             *)
(*                                                                         *)
(* Time is an integer number of ticks; one millisecond is TicksPerMs       *)
(* ticks, so that the truncation int(... * 1000) of the code is visible.   *)
(***************************************************************************)
EXTENDS Integers, Sequences, FiniteSets, TLC

VARIABLES
    now,        \* the clock read by datetime.utcnow(), in ticks
    requests,   \* AIRateLimiter.requests: user -> the dict stored under its key (0: no key)
    heap,       \* the dicts AIRateLimiter.check has created, by identity
    last,       \* the most recent return value of AIRateLimiter.check, with its caller
    calls,      \* history: per user, the window of the claims and the calls made in it
    admitted,   \* history: per user, the calls of that window that returned allowed
    threads,    \* request threads inside AIRateLimiter.check: position and locals
    profiles,   \* the users table: user -> its row (present, diseases)
    rows,       \* the ai_chat_messages table, in order of insertion
    uuids,      \* the number of uuid4 values drawn for chat rows
    chat,       \* POST /chat requests: position in the handler, locals, response
    database,   \* the kind of store DATABASE_URL names
    feedback,   \* the ai_feedback table, in order of insertion
    cleared,    \* the most recent DELETE /history request: inputs, effect, response
    fb,         \* the POST /feedback request: position in the handler, locals, response
    admissions, \* history: per user and moment, the checks that returned allowed
    hist,       \* the most recent GET /history request: inputs, page fetched, response
    stats,      \* the most recent GET /stats request: its response
    active_sessions, \* SimpleSessionLogger.active_sessions
    heartbeats, \* SimpleSessionLogger.heartbeats: session -> last heartbeat (NoBeat: no entry)
    lock,       \* SimpleSessionLogger.lock: the thread that holds it, or "free"
    log_file,   \* the log file: its number of lines (NoFile: it does not exist)
    workers,    \* the threads that use the logger: position, call, locals, last return
    rate_limits, \* the rate_limits dict of the blueprint: ip -> its entry (NoEntry: no key)
    ip_last,    \* the most recent request through before_request: ip, moment, answer
    ip_hist,    \* history: per ip, when its entry was created and the requests admitted since
    accounts,   \* the users table: password and password-reset columns of each user
    issued,     \* history: per user, the reset token issued last and when
    tokens,     \* the number of reset tokens generated
    reset,      \* the most recent password-reset request: inputs, answer
    daily_stats, \* the daily_stats table, in order of insertion
    daily,      \* POST /daily-stats requests: position in the handler, locals, answer
    bp          \* a blood pressure reading and the result of validate_blood_pressure

limiterVars == <<requests, heap, last, calls, admitted, threads>>
storeVars == <<database, feedback, cleared, fb>>
loggerVars == <<active_sessions, heartbeats, lock, log_file, workers>>
ipVars == <<rate_limits, ip_last, ip_hist>>
resetVars == <<accounts, issued, tokens, reset>>
dailyVars == <<daily_stats, daily, bp>>
aiVars == <<requests, heap, last, calls, admitted, threads, profiles, rows, uuids, chat,
            database, feedback, cleared, fb, admissions, hist, stats>>
appVars == <<hist, stats, loggerVars, ipVars, resetVars, dailyVars>>
chatVars == <<profiles, rows, uuids, chat, storeVars, admissions, appVars>>
vars == <<now, requests, heap, last, calls, admitted, threads, profiles, rows, uuids, chat,
          database, feedback, cleared, fb, admissions, appVars>>

----------------------------------------------------------------------------
(* Bounds of the model *)

\* clock resolution: ticks per millisecond
TicksPerMs == 2
\* the clock runs over the window boundaries 0 .. MaxWindows
MaxWindows == 1
\* calls of the first user followed inside one window beyond the limit
MaxExtra == 2
\* calls of every other user followed inside one window
MaxOtherCalls == 2
\* calls that the request threads make in all
MaxConcCalls == 3
\* the clock of the chat requests runs over 0 .. MaxChatNow ticks
MaxChatNow == 1
\* chat requests followed through the rate limiter
MaxChatCalls == 2
\* rows of the chat table before the last request when the history of a
\* user is followed, the ticks of the clock then, and the rows written
\* within one tick
MaxHistoryRows == 8
MaxHistoryNow == MaxHistoryRows \div 2
MaxTies == 1 + 1
\* rows of every other user in that table
MaxOtherRows == 1
\* rows of the chat table when the rate limit of a user is followed
MaxLimitRows == 1
\* DELETE /history: chat rows inserted, and days the clock runs
MaxClearRows == 3
MaxClearDays == 2
\* POST /feedback: chat rows inserted, and feedback requests that reach the insert
MaxFeedbackRows == 2
MaxFeedback == 2
\* the longest message of the requests that try the emergency keywords
MaxKeywordMsgLen == 4
\* checks followed at the moment a window opens (admissions across a boundary)
MaxEarlyCalls == 2
\* the largest token count a provider reports (tokens_used)
MaxProviderTokens == 2
\* GET /history: turns stored, pages and page sizes asked for
MaxHistoryTurns == 3
MaxHistoryPage == 2
MaxPageLimit == 2
\* the stored turns under all the AI routes: turns, days, feedback requests
MaxTurnRows == 2
\* SimpleSessionLogger: sleeps of the cleaner that the clock covers, log lines
MaxSleeps == 5
MaxLogLines == 2
\* password reset: tokens issued, hours the clock covers
MaxResetTokens == 2
MaxResetHours == 1
\* POST /daily-stats: requests a client sends one after the other
MaxDailyCalls == 2
MaxTurnDays == MaxTurnRows \div 2
MaxTurnFeedback == MaxTurnRows \div 2

----------------------------------------------------------------------------
(* Text.  A text is a sequence of characters.  Arabic letters are written    *)
(* by their names ("noon", "zain", ...), Latin letters as themselves; the   *)
(* sign U+1F6A8 that opens the emergency texts is written "!".              *)

Whitespace == {" ", "\t", "\n"}

RECURSIVE LStrip(_)
LStrip(s) == IF s # <<>> /\ Head(s) \in Whitespace THEN LStrip(Tail(s)) ELSE s

RECURSIVE RStrip(_)
RStrip(s) ==
    IF s # <<>> /\ s[Len(s)] \in Whitespace THEN RStrip(SubSeq(s, 1, Len(s) - 1)) ELSE s

\* str.strip()
Strip(s) == RStrip(LStrip(s))

\* s[:n]
Prefix(s, n) == SubSeq(s, 1, IF Len(s) < n THEN Len(s) ELSE n)

\* k in s
Contains(s, k) == \E i \in 0..(Len(s) - Len(k)) : SubSeq(s, i + 1, i + Len(k)) = k

\* str.lower(): the Latin capitals of the model's alphabet; Arabic has no case
LowerChar(c) == IF c = "H" THEN "h" ELSE IF c = "I" THEN "i" ELSE c
Lower(s) == [i \in 1..Len(s) |-> LowerChar(s[i])]

\* len(s.split()): the maximal runs of characters that are not whitespace
Words(s) ==
    Cardinality({i \in 1..Len(s) :
                    /\ s[i] \notin Whitespace
                    /\ (i = 1 \/ s[i - 1] \in Whitespace)})

max_message_chars == 5000

sanitize_message_no_strip(message) ==
    IF message = <<>> THEN <<>> ELSE Prefix(message, max_message_chars)
\* sanitize_message
sanitize_message(message) ==
    IF message = <<>> THEN <<>> ELSE Prefix(Strip(message), max_message_chars)

\* the list emergency_keywords of check_emergency_keywords
emergency_keywords == <<
    <<"tah", "alef", "reh", "yeh_hamza">>,
    <<"alef_hamza_below", "seen", "ain", "alef", "feh">>,
    <<"meem", "seen", "teh", "ain", "jeem", "lam">>,
    <<"khah", "tah", "yeh", "reh">>,
    <<"meem", "khah", "yeh", "feh">>,
    <<"noon", "zain", "yeh", "feh">>,
    <<"alef_hamza_above", "lam", "meem", " ", "sheen", "dal", "yeh", "dal">>,
    <<"sad", "ain", "waw", "beh", "teh_marbuta", " ", "teh", "noon", "feh", "seen">>,
    <<"feh", "qaf", "dal", "alef", "noon", " ", "waw", "ain", "yeh">>,
    <<"hah", "alef", "dal", "theh">>,
    <<"seen", "kaf", "teh", "teh_marbuta">>,
    <<"noon", "waw", "beh", "teh_marbuta", " ", "qaf", "lam", "beh", "yeh", "teh_marbuta">>,
    <<"teh", "seen", "meem", "meem">>,
    <<"hah", "reh", "qaf">>,
    <<"ghain", "reh", "qaf">>,
    <<"alef", "khah", "teh", "noon", "alef", "qaf">> >>

check_emergency_keywords_first_only(message) ==
    Contains(Lower(message), emergency_keywords[1])
\* check_emergency_keywords
check_emergency_keywords(message) ==
    \E i \in 1..Len(emergency_keywords) : Contains(Lower(message), emergency_keywords[i])

\* the two texts of get_fallback_response, shortened: the emergency one opens
\* with the sign and sends the user to the emergency number, the other is the
\* apology with the self-service pointers
EmergencyFallbackText == <<"!", " ", "c", "a", "l", "l", " ", "1", "2", "3">>
GenericFallbackText == <<"s", "o", "r", "r", "y", " ", "l", "a", "t", "e", "r">>

Fallback_swapped(message, is_emergency) ==
    IF is_emergency THEN GenericFallbackText ELSE EmergencyFallbackText
\* get_fallback_response
get_fallback_response(message, is_emergency) ==
    IF is_emergency THEN EmergencyFallbackText ELSE GenericFallbackText

\* the text chat puts around a completion for an emergency message
EmergencyPrefix == <<"!", " ">>
EmergencySuffix == <<" ", "1", "2", "3">>
SirenSign == <<"!">>

\* lines 143-148 of chat: the warning is added unless the completion has one
WithEmergencyWarning(ai_response, is_emergency) ==
    IF /\ is_emergency
       /\ ~Contains(ai_response, SirenSign)
       /\ ~Contains(ai_response, emergency_keywords[1])
    THEN EmergencyPrefix \o ai_response \o EmergencySuffix
    ELSE ai_response

\* create_system_prompt: the fixed instructions, then the profile's fields
SystemPromptBase == <<"s", "y", "s">>
create_system_prompt(profile) ==
    IF profile.diseases # <<>> THEN SystemPromptBase \o <<"\n">> \o profile.diseases
    ELSE SystemPromptBase

----------------------------------------------------------------------------
(* ChatSchema and the exceptions the handler meets *)

\* temperatures are written in tenths: Range(min=0.1, max=2.0), load_default=0.7
temperature_min == 1
temperature_max == 20
temperature_default == 7
message_min_chars == 1

\* an exception: its class, str(e), and which of the words error_handler
\* looks for occur in str(e).lower()
Exc(type, msg, mentions) == [type |-> type, msg |-> msg, mentions |-> mentions]
NoExc == Exc("none", "", {})
ValidationError(msg) == Exc("ValidationError", msg, {})
UnboundCursor ==
    Exc("UnboundLocalError",
        "cannot access local variable 'cursor' where it is not associated with a value", {})
StorageError == Exc("OperationalError", "database is locked", {})

Body(has_message, message, has_temperature, temperature) ==
    [has_message |-> has_message, message |-> message,
     has_temperature |-> has_temperature, temperature |-> temperature]

\* ChatSchema().load(request.json): the loaded data, or the ValidationError
ChatSchemaLoad(body) ==
    IF ~body.has_message
    THEN [ok |-> FALSE, error |-> ValidationError("Missing data for required field.")]
    ELSE IF Len(body.message) < message_min_chars \/ Len(body.message) > max_message_chars
    THEN [ok |-> FALSE, error |-> ValidationError("Length must be between 1 and 5000.")]
    ELSE IF /\ body.has_temperature
            /\ (body.temperature < temperature_min \/ body.temperature > temperature_max)
    THEN [ok |-> FALSE,
          error |-> ValidationError("Must be greater than or equal to 0.1 and less than or equal to 2.0.")]
    ELSE [ok |-> TRUE, error |-> NoExc]

----------------------------------------------------------------------------
(* AIRateLimiter *)

Users == {"u1", "u2"}

limit == 60
window_minutes == 15

NoResult == [user |-> "none", at |-> -1, allowed |-> FALSE, remaining |-> -1,
             resetAfter |-> -1, prevAt |-> -1, prevResetAfter |-> -1]

\* window_minutes * 60 seconds, as ticks
WindowTicks == window_minutes * 60 * 1000 * TicksPerMs

\* int(seconds * 1000) of a non-negative span given in ticks
MsOf(ticks) == ticks \div TicksPerMs

\* key in self.requests
HasKey(reqs, u) == reqs[u] # 0

\* now.timestamp() > window_end
WindowPassed(t, user_data) == t > user_data.window_start + WindowTicks

AtLimit_off_by_one(user_data) == user_data.count > limit
\* user_data['count'] >= self.limit
AtLimit(user_data) == user_data.count >= limit

\* the dict stored for a new window, and the fields written when one restarts
FreshWindow_count_zero(t) == [count |-> 0, window_start |-> t, reset_time |-> t + WindowTicks]
FreshWindow(t) == [count |-> 1, window_start |-> t, reset_time |-> t + WindowTicks]

\* the dict check returns
Ret(allowed, remaining, resetAfter) ==
    [allowed |-> allowed, remaining |-> remaining, resetAfter |-> resetAfter]

check_one_table_window(reqs, hp, u, t) ==
    IF ~HasKey(reqs, u)
    THEN [reqs |-> [reqs EXCEPT ![u] = Len(hp) + 1],
          heap |-> Append([i \in 1..Len(hp) |-> FreshWindow(t)], FreshWindow(t)),
          ret |-> Ret(TRUE, limit - 1, window_minutes * 60 * 1000)]
    ELSE LET user_data == hp[reqs[u]] IN
         IF WindowPassed(t, user_data)
         THEN [reqs |-> reqs,
               heap |-> [hp EXCEPT ![reqs[u]] = FreshWindow(t)],
               ret |-> Ret(TRUE, limit - 1, window_minutes * 60 * 1000)]
         ELSE IF AtLimit(user_data)
         THEN [reqs |-> reqs,
               heap |-> hp,
               ret |-> Ret(FALSE, 0, MsOf(user_data.reset_time - t))]
         ELSE [reqs |-> reqs,
               heap |-> [hp EXCEPT ![reqs[u]].count = @ + 1],
               ret |-> Ret(TRUE, limit - (user_data.count + 1),
                           MsOf(user_data.reset_time - t))]
\* AIRateLimiter.check run without interruption, as a function of the table,
\* the dicts, the user and the clock: the table and dicts after the call and
\* the dict it returns
check(reqs, hp, u, t) ==
    IF ~HasKey(reqs, u)
    THEN [reqs |-> [reqs EXCEPT ![u] = Len(hp) + 1],
          heap |-> Append(hp, FreshWindow(t)),
          ret |-> Ret(TRUE, limit - 1, window_minutes * 60 * 1000)]
    ELSE LET user_data == hp[reqs[u]] IN
         IF WindowPassed(t, user_data)
         THEN [reqs |-> reqs,
               heap |-> [hp EXCEPT ![reqs[u]] = FreshWindow(t)],
               ret |-> Ret(TRUE, limit - 1, window_minutes * 60 * 1000)]
         ELSE IF AtLimit(user_data)
         THEN [reqs |-> reqs,
               heap |-> hp,
               ret |-> Ret(FALSE, 0, MsOf(user_data.reset_time - t))]
         ELSE [reqs |-> reqs,
               heap |-> [hp EXCEPT ![reqs[u]].count = @ + 1],
               ret |-> Ret(TRUE, limit - (user_data.count + 1),
                           MsOf(user_data.reset_time - t))]

\* the window record of a user that has a key
Entry(u) == heap[requests[u]]

----------------------------------------------------------------------------
(* The clock *)

TimePoints == {k * WindowTicks + o : k \in 0..MaxWindows, o \in 0..1}
MaxNow == MaxWindows * WindowTicks + 1

\* time passes between two requests
Advance ==
    /\ \E t \in TimePoints : t > now /\ now' = t
    /\ UNCHANGED <<requests, heap, last, calls, admitted, threads, chatVars>>

\* the caller of the last check waits exactly the resetAfter it was given
WaitResetAfter ==
    /\ last # NoResult
    /\ last.at = now
    /\ last.resetAfter > 0
    /\ now + last.resetAfter * TicksPerMs <= MaxNow
    /\ now' = now + last.resetAfter * TicksPerMs
    /\ UNCHANGED <<requests, heap, last, calls, admitted, threads, chatVars>>

----------------------------------------------------------------------------
(* Storage and the state of the chat requests *)

ChatRequests == {"r1", "r2"}
\* the request followed where requests are handled one after the other
SerialRequests == {"r1"}

NoRet == [allowed |-> FALSE, remaining |-> -1, resetAfter |-> -1]
NoData == [response |-> <<>>, message_id |-> 0, tokens_used |-> -1,
           is_emergency |-> FALSE, remaining |-> -1, reset_after |-> -1]
NoResp == [status |-> 0, success |-> FALSE, error |-> "", data |-> NoData]
NoBody == [has_message |-> FALSE, message |-> <<>>,
           has_temperature |-> FALSE, temperature |-> 0]

\* the moments at which the bursts of checks are made: the start of a window,
\* its last moment, and the first moment after it
BurstTimes == {0, WindowTicks, WindowTicks + 1}

\* DATABASE_URL: a PostgreSQL URL (the default of create_app), else SQLite
Databases == {"postgresql", "sqlite"}
DefaultDatabase == "postgresql"

NoClear == [user |-> "none", confirm |-> FALSE, days |-> 0, at |-> -1,
            before |-> <<>>, after |-> <<>>, status |-> 0, deleted_count |-> -1]
FbIdle == [pc |-> "idle", user |-> "none", message_id |-> 0, rating |-> 0,
           found |-> FALSE, owner |-> "none", status |-> 0, feedback_id |-> 0,
           drawn |-> 0]

\* history: what the completion call was given and what the provider answered
\* (the words of the message list, the candidate text, the usage it reported)
NoUsage == 0 - 1
NoProvider == [prompt_words |-> 0, text |-> <<>>, usage |-> NoUsage]

ChatIdle ==
    [pc |-> "idle", user |-> "none", body |-> NoBody,
     rows_before |-> 0, count_before |-> -1, raised |-> NoExc,
     rate_limit |-> NoRet, sanitized_message |-> <<>>, is_emergency |-> FALSE,
     context_ids |-> <<>>, messages |-> <<>>,
     posts |-> 0, api_failed |-> FALSE, provider |-> NoProvider,
     ai_response |-> <<>>, tokens_used |-> 0, message_id |-> 0, resp |-> NoResp]

NoHistory == [user |-> "none", page |-> 0, limit |-> 0, sort_by |-> "", sort_order |-> "",
              fetched |-> <<>>, status |-> 0, conversations |-> <<>>, total |-> 0 - 1]

NoStats == [user |-> "none", status |-> 0, total_messages |-> 0 - 1, total_tokens |-> 0 - 1]

\* SimpleSessionLogger: the sessions of the log viewer, the request threads
\* that call the logger, and its cleaner thread
Sessions == {"s1", "s2"}
Callers == {"w1"}
Cleaner == "cleaner"
NoBeat == 0 - 1
NoFile == 0 - 1
WorkerIdle == [pc |-> "idle", op |-> "none", arg |-> "none", ret |-> "none",
               to_remove |-> {}]

\* lines 29-42: __init__; the cleaner thread is started
InitLogger ==
    /\ active_sessions = {}
    /\ heartbeats = [s \in Sessions |-> NoBeat]
    /\ lock = "free"
    /\ log_file = NoFile
    /\ workers = [t \in Callers \cup {Cleaner} |-> WorkerIdle]

\* the per-IP limiter of the blueprint
Ips == {"ip1", "ip2"}
NoEntry == [count |-> 0, reset_time |-> 0 - 1]
NoIpResult == [ip |-> "none", at |-> 0 - 1, status |-> "none", count_before |-> 0 - 1,
               had_entry |-> FALSE, created_before |-> 0 - 1]
NoIpHist == [created |-> 0 - 1, admitted |-> 0]

\* line 10: rate_limits = {}
InitIp ==
    /\ rate_limits = [ip \in Ips |-> NoEntry]
    /\ ip_last = NoIpResult
    /\ ip_hist = [ip \in Ips |-> NoIpHist]

\* password reset: the stored password is the number of the password set last
NoToken == 0
NoExpiry == 0 - 1
NoReset == [kind |-> "none", user |-> "none", token |-> NoToken, at |-> 0 - 1, status |-> 0,
            password |-> 0, latest |-> FALSE, used_before |-> FALSE, issued_at |-> 0 - 1,
            accounts_before |-> <<>>]

InitReset ==
    /\ accounts = [u \in Users |-> [password_hash |-> 0, reset_password_token |-> NoToken,
                                   reset_token_expiry |-> NoExpiry, changes |-> 0]]
    /\ issued = [u \in Users |-> [token |-> NoToken, at |-> 0 - 1, used |-> FALSE]]
    /\ tokens = 0
    /\ reset = NoReset

\* POST /daily-stats
DailyRequests == {"d1", "d2"}
DailyIdle == [pc |-> "idle", user |-> "none", date |-> 0, status |-> 0, existed |-> FALSE,
              n |-> 0]
NoReading == [systolic |-> 0, diastolic |-> 0, status |-> "none"]

InitDaily ==
    /\ daily_stats = <<>>
    /\ daily = [d \in DailyRequests |-> DailyIdle]
    /\ bp = NoReading

InitAppVars ==
    /\ hist = NoHistory
    /\ stats = NoStats
    /\ InitLogger
    /\ InitIp
    /\ InitReset
    /\ InitDaily

InitChatVars ==
    /\ profiles = [u \in Users |->
                      [present |-> TRUE,
                       diseases |-> IF u = "u1" THEN <<"d", "m">> ELSE <<>>]]
    /\ rows = <<>>
    /\ uuids = 0
    /\ chat = [r \in ChatRequests |-> ChatIdle]
    /\ feedback = <<>>
    /\ cleared = NoClear
    /\ fb = FbIdle
    /\ admissions = [u \in Users |-> [t \in BurstTimes |-> 0]]
    /\ InitAppVars

----------------------------------------------------------------------------
(* Sequential use of the limiter *)

NoCalls == [first |-> -1, n |-> 0, at |-> -1, resetAfter |-> -1, windows |-> 0]

\* the window of the claims: 15 minutes from its first request; the first
\* request after it opens the next one
InClaimWindow(u, t) == calls[u].n > 0 /\ t <= calls[u].first + WindowTicks

\* how many calls of a user the model follows inside one window
CallCap(u) == IF u = "u1" THEN limit + MaxExtra ELSE MaxOtherCalls

LimiterCheck(u) ==
    LET r == check(requests, heap, u, now)
        n == IF InClaimWindow(u, now) THEN calls[u].n + 1 ELSE 1
    IN /\ n <= CallCap(u)
       /\ requests' = r.reqs
       /\ heap' = r.heap
       /\ last' = [user |-> u, at |-> now, allowed |-> r.ret.allowed,
                   remaining |-> r.ret.remaining, resetAfter |-> r.ret.resetAfter,
                   prevAt |-> calls[u].at, prevResetAfter |-> calls[u].resetAfter]
       /\ calls' = [calls EXCEPT ![u] =
                       [first |-> IF InClaimWindow(u, now) THEN @.first ELSE now,
                        n |-> n, at |-> now, resetAfter |-> r.ret.resetAfter,
                        windows |-> IF InClaimWindow(u, now) THEN @.windows
                                    ELSE @.windows + 1]]
       /\ admitted' = [admitted EXCEPT ![u] =
                          (IF InClaimWindow(u, now) THEN @ ELSE 0)
                          + (IF r.ret.allowed THEN 1 ELSE 0)]
       /\ UNCHANGED <<now, threads, chatVars>>

Threads == {"t1", "t2"}
Idle == [pc |-> "idle", user |-> "none", t |-> -1, user_data |-> 0, count |-> -1]

InitLimiter ==
    /\ now = 0
    /\ requests = [u \in Users |-> 0]
    /\ heap = <<>>
    /\ last = NoResult
    /\ calls = [u \in Users |-> NoCalls]
    /\ admitted = [u \in Users |-> 0]
    /\ threads = [th \in Threads |-> Idle]
    /\ InitChatVars
    /\ database = DefaultDatabase

NextLimiter ==
    \/ \E u \in Users : LimiterCheck(u)
    \/ Advance
    \/ WaitResetAfter

SpecLimiter == InitLimiter /\ [][NextLimiter]_vars

\* C1: inside one window (15 minutes from its first request) the Nth check of
\* a user is admitted exactly when N <= 60: calls 1..60 are admitted, the 61st
\* and every later one is rejected.
C1_AdmittedIffWithinLimit ==
    last # NoResult => (last.allowed <=> calls[last.user].n <= limit)

\* a 61st call made later in a window that admitted 60, rejected
C1_Witness ==
    /\ last # NoResult
    /\ calls[last.user].n = limit + 1
    /\ last.at > calls[last.user].first
    /\ ~last.allowed
    /\ Entry(last.user).count = limit

\* C20: after any sequence of sequential checks every stored count is between
\* 1 and 60; an admitted check returns remaining = 60 - count, with the count
\* as the call left it, and a rejected check returns remaining = 0; every
\* check returns a resetAfter between 0 and 900000 ms.
C20_CountRemainingResetAfter ==
    /\ \A u \in Users : HasKey(requests, u) => 1 <= Entry(u).count /\ Entry(u).count <= limit
    /\ last # NoResult =>
          /\ last.remaining = IF last.allowed THEN limit - Entry(last.user).count ELSE 0
          /\ 0 <= last.resetAfter
          /\ last.resetAfter <= window_minutes * 60 * 1000

\* a rejected check at the last moment of a full window: count 60,
\* remaining 0, resetAfter 0
C20_Witness ==
    /\ last # NoResult
    /\ last.at = now
    /\ ~last.allowed
    /\ Entry(last.user).count = limit
    /\ last.remaining = 0
    /\ last.resetAfter = 0

\* an admitted check that restarted the window: count 1, remaining 59,
\* resetAfter 900000
C20_RestartReached ==
    /\ last # NoResult
    /\ last.at = now
    /\ last.allowed
    /\ calls[last.user].windows > 1
    /\ Entry(last.user).count = 1
    /\ last.remaining = limit - 1
    /\ last.resetAfter = window_minutes * 60 * 1000

\* C21: windows are per user: a check for user a never creates, resets or
\* changes the window (count, window_start, reset_time) of another user b, and
\* a check of a is rejected only on a's own count, so a exhausting the limit
\* never causes b to be rejected.
C21_WindowsArePerUser ==
    [][\A a \in Users :
          calls'[a] # calls[a] =>
              /\ \A b \in Users \ {a} :
                    /\ HasKey(requests', b) <=> HasKey(requests, b)
                    /\ HasKey(requests, b) => heap'[requests'[b]] = heap[requests[b]]
              /\ ~last'.allowed =>
                    /\ HasKey(requests, a)
                    /\ heap[requests[a]].count >= limit
                    /\ ~WindowPassed(now, heap[requests[a]])]_vars

\* u1 has used up its window and was rejected; u2 is then admitted in a
\* window of its own
C21_Witness ==
    /\ last # NoResult
    /\ last.user = "u2"
    /\ last.allowed
    /\ last.remaining = limit - 1
    /\ HasKey(requests, "u1")
    /\ Entry("u1").count = limit
    /\ calls["u1"].n > limit
    /\ calls["u1"].at = now
    /\ Entry("u2").window_start = now
    /\ Entry("u1").window_start < now

\* C3 (as claimed): when at least the resetAfter milliseconds returned by a
\* user's previous check have elapsed, the user's next check is admitted and
\* restarts the window with count = 1 and remaining = limit - 1.
C3_AdmittedAfterResetAfter ==
    (/\ last # NoResult
     /\ last.prevAt >= 0
     /\ last.at >= last.prevAt + last.prevResetAfter * TicksPerMs)
    => (/\ last.allowed
        /\ Entry(last.user).count = 1
        /\ last.remaining = limit - 1)

----------------------------------------------------------------------------
(* Request threads inside AIRateLimiter.check.  The class holds no lock, so  *)
(* the interpreter may switch threads between any two reads or writes of    *)
(* the shared table and dicts; each action below is one such access.        *)

SetThread(th, rec) == threads' = [threads EXCEPT ![th] = rec]
Goto(th, pc) == SetThread(th, [threads[th] EXCEPT !.pc = pc])

\* the call returns: the thread leaves check with the dict it was given
Return(th, ret) ==
    LET u == threads[th].user IN
    /\ last' = [user |-> u, at |-> threads[th].t, allowed |-> ret.allowed,
                remaining |-> ret.remaining, resetAfter |-> ret.resetAfter,
                prevAt |-> -1, prevResetAfter |-> -1]
    /\ admitted' = [admitted EXCEPT ![u] = @ + (IF ret.allowed THEN 1 ELSE 0)]
    /\ SetThread(th, Idle)

\* calls made so far by request threads
RECURSIVE SumCalls(_)
SumCalls(us) ==
    IF us = {} THEN 0
    ELSE LET u == CHOOSE x \in us : TRUE IN calls[u].n + SumCalls(us \ {u})
ConcCalls == SumCalls(Users)

\* line 17: a request thread enters check and reads the clock
Enter(th, u) ==
    /\ threads[th].pc = "idle"
    /\ ConcCalls < MaxConcCalls
    /\ SetThread(th, [Idle EXCEPT !.pc = "test_key", !.user = u, !.t = now])
    /\ calls' = [calls EXCEPT ![u] =
                    [first |-> IF InClaimWindow(u, now) THEN @.first ELSE now,
                     n |-> @.n + 1, at |-> now, resetAfter |-> @.resetAfter,
                     windows |-> IF InClaimWindow(u, now) THEN @.windows
                                 ELSE @.windows + 1]]
    /\ UNCHANGED <<now, requests, heap, last, admitted, chatVars>>

\* line 20: if key not in self.requests
TestKey(th) ==
    /\ threads[th].pc = "test_key"
    /\ Goto(th, IF HasKey(requests, threads[th].user) THEN "load" ELSE "store_new")
    /\ UNCHANGED <<now, requests, heap, last, calls, admitted, chatVars>>

\* lines 21-30: self.requests[key] = {...}; return
StoreNew(th) ==
    /\ threads[th].pc = "store_new"
    /\ heap' = Append(heap, FreshWindow(threads[th].t))
    /\ requests' = [requests EXCEPT ![threads[th].user] = Len(heap) + 1]
    /\ Return(th, Ret(TRUE, limit - 1, window_minutes * 60 * 1000))
    /\ UNCHANGED <<now, calls, chatVars>>

\* line 32: user_data = self.requests[key]
Load(th) ==
    /\ threads[th].pc = "load"
    /\ SetThread(th, [threads[th] EXCEPT !.pc = "test_window",
                                         !.user_data = requests[threads[th].user]])
    /\ UNCHANGED <<now, requests, heap, last, calls, admitted, chatVars>>

\* lines 35-36: if now.timestamp() > window_end
TestWindow(th) ==
    /\ threads[th].pc = "test_window"
    /\ Goto(th, IF WindowPassed(threads[th].t, heap[threads[th].user_data])
                THEN "reset_count" ELSE "test_limit")
    /\ UNCHANGED <<now, requests, heap, last, calls, admitted, chatVars>>

\* line 37: user_data['count'] = 1
ResetCount(th) ==
    /\ threads[th].pc = "reset_count"
    /\ heap' = [heap EXCEPT ![threads[th].user_data].count = 1]
    /\ Goto(th, "reset_start")
    /\ UNCHANGED <<now, requests, last, calls, admitted, chatVars>>

\* line 38: user_data['window_start'] = now
ResetStart(th) ==
    /\ threads[th].pc = "reset_start"
    /\ heap' = [heap EXCEPT ![threads[th].user_data].window_start = threads[th].t]
    /\ Goto(th, "reset_time")
    /\ UNCHANGED <<now, requests, last, calls, admitted, chatVars>>

\* lines 39-44: user_data['reset_time'] = ...; return
ResetTime(th) ==
    /\ threads[th].pc = "reset_time"
    /\ heap' = [heap EXCEPT ![threads[th].user_data].reset_time =
                                threads[th].t + WindowTicks]
    /\ Return(th, Ret(TRUE, limit - 1, window_minutes * 60 * 1000))
    /\ UNCHANGED <<now, requests, calls, chatVars>>

\* lines 46-51: if user_data['count'] >= self.limit: return the rejection
TestLimit(th) ==
    LET user_data == heap[threads[th].user_data] IN
    /\ threads[th].pc = "test_limit"
    /\ IF AtLimit(user_data)
       THEN Return(th, Ret(FALSE, 0, MsOf(user_data.reset_time - threads[th].t)))
       ELSE Goto(th, "read_count") /\ UNCHANGED <<last, admitted>>
    /\ UNCHANGED <<now, requests, heap, calls, chatVars>>

\* line 53, first half of user_data['count'] += 1: the count is read
ReadCount(th) ==
    /\ threads[th].pc = "read_count"
    /\ SetThread(th, [threads[th] EXCEPT !.pc = "write_count",
                                         !.count = heap[threads[th].user_data].count])
    /\ UNCHANGED <<now, requests, heap, last, calls, admitted, chatVars>>

\* line 53, second half: the count read, plus one, is stored
WriteCount(th) ==
    /\ threads[th].pc = "write_count"
    /\ heap' = [heap EXCEPT ![threads[th].user_data].count = threads[th].count + 1]
    /\ Goto(th, "return")
    /\ UNCHANGED <<now, requests, last, calls, admitted, chatVars>>

\* lines 54-58: the return value is built from the dict as it is now
ReturnAllowed(th) ==
    LET user_data == heap[threads[th].user_data] IN
    /\ threads[th].pc = "return"
    /\ Return(th, Ret(TRUE, limit - user_data.count,
                      MsOf(user_data.reset_time - threads[th].t)))
    /\ UNCHANGED <<now, requests, heap, calls, chatVars>>

NextThreads ==
    \/ \E th \in Threads, u \in Users : Enter(th, u)
    \/ \E th \in Threads :
         \/ TestKey(th)
         \/ StoreNew(th)
         \/ Load(th)
         \/ TestWindow(th)
         \/ ResetCount(th)
         \/ ResetStart(th)
         \/ ResetTime(th)
         \/ TestLimit(th)
         \/ ReadCount(th)
         \/ WriteCount(th)
         \/ ReturnAllowed(th)
    \/ Advance

SpecThreads == InitLimiter /\ [][NextThreads]_vars

AllIdle == \A th \in Threads : threads[th].pc = "idle"

\* C2 (as claimed): for any interleaving of concurrent checks of one user
\* inside one window no increment is lost: once the calls have returned, at
\* most 60 were admitted and the stored count is the number of admitted calls.
C2_NoLostIncrement ==
    \A u \in Users :
        (AllIdle /\ calls[u].windows = 1 /\ HasKey(requests, u))
        => (admitted[u] <= limit /\ Entry(u).count = admitted[u])

----------------------------------------------------------------------------
(* POST /chat: the handler chat of routes/ai.py under auth_middleware and    *)
(* error_handler.  The user is the one auth_middleware resolved.            *)

Resp(status, success, error, data) ==
    [status |-> status, success |-> success, error |-> error, data |-> data]

\* the decorator error_handler: what it answers for an exception leaving chat
error_handler(e) ==
    IF "validation" \in e.mentions THEN Resp(400, FALSE, "invalid data", NoData)
    ELSE IF "not found" \in e.mentions THEN Resp(404, FALSE, "data not found", NoData)
    ELSE Resp(500, FALSE, "server error", NoData)

DefaultChatError == "error while handling your message"

\* lines 201-208: `except Exception as error` answers 500 with str(error);
\* then `finally: cursor.close()` runs, and when cursor was never bound it
\* raises UnboundLocalError, which replaces that answer and reaches
\* error_handler
ChatExcept(error, cursor_bound) ==
    IF cursor_bound
    THEN Resp(500, FALSE, IF error.msg # "" THEN error.msg ELSE DefaultChatError, NoData)
    ELSE error_handler(UnboundCursor)

SetChat(r, rec) == chat' = [chat EXCEPT ![r] = rec]
Answer(r, resp) == SetChat(r, [chat[r] EXCEPT !.pc = "responded", !.resp = resp])
Fail(r, error, cursor_bound) ==
    SetChat(r, [chat[r] EXCEPT !.pc = "responded", !.raised = error,
                               !.resp = ChatExcept(error, cursor_bound)])

\* lines 28-39: the body is loaded through ChatSchema, then the connection
\* and the cursor are opened
ChatReceive(r, u, body, fault) ==
    LET loaded == ChatSchemaLoad(body)
        fresh == [ChatIdle EXCEPT !.user = u, !.body = body, !.rows_before = Len(rows)]
    IN /\ chat[r].pc \in {"idle", "responded"}
       /\ profiles[u].present
       /\ IF ~loaded.ok
          THEN chat' = [chat EXCEPT ![r] =
                           [fresh EXCEPT !.pc = "responded", !.raised = loaded.error,
                                         !.resp = ChatExcept(loaded.error, FALSE)]]
          ELSE IF fault
          THEN chat' = [chat EXCEPT ![r] =
                           [fresh EXCEPT !.pc = "responded", !.raised = StorageError,
                                         !.resp = ChatExcept(StorageError, FALSE)]]
          ELSE chat' = [chat EXCEPT ![r] = [fresh EXCEPT !.pc = "rate_check"]]
       /\ UNCHANGED <<now, limiterVars, profiles, storeVars, admissions, appVars, rows, uuids>>

Rejected_never(rate_limit) == FALSE
\* line 43: if not rate_limit['allowed']
Rejected(rate_limit) == ~rate_limit.allowed

\* lines 41-50: the rate limiting check; a rejection is answered 429
ChatRateCheck(r) ==
    LET u == chat[r].user
        c == check(requests, heap, u, now)
        before == IF HasKey(requests, u) THEN Entry(u).count ELSE 0
    IN /\ chat[r].pc = "rate_check"
       /\ requests' = c.reqs
       /\ heap' = c.heap
       /\ IF Rejected(c.ret)
          THEN SetChat(r, [chat[r] EXCEPT !.pc = "responded",
                                          !.rate_limit = c.ret,
                                          !.count_before = before,
                                          !.resp = Resp(429, FALSE, "rate limit exceeded", NoData)])
          ELSE SetChat(r, [chat[r] EXCEPT !.pc = "sanitize",
                                          !.rate_limit = c.ret,
                                          !.count_before = before])
       /\ UNCHANGED <<now, last, calls, admitted, threads, profiles, storeVars, admissions, appVars, rows, uuids>>

\* lines 52-61: the message is sanitized; an empty one is answered 400
ChatSanitize(r) ==
    LET sanitized_message == sanitize_message(chat[r].body.message) IN
    /\ chat[r].pc = "sanitize"
    /\ IF sanitized_message = <<>>
       THEN Answer(r, Resp(400, FALSE, "message cannot be empty", NoData))
       ELSE SetChat(r, [chat[r] EXCEPT
                           !.pc = "profile",
                           !.sanitized_message = sanitized_message,
                           !.is_emergency = check_emergency_keywords(sanitized_message)])
    /\ UNCHANGED <<now, limiterVars, profiles, storeVars, admissions, appVars, rows, uuids>>

\* lines 63-80: the user's row is read; without one the answer is 404
ChatProfile(r, fault) ==
    /\ chat[r].pc = "profile"
    /\ IF fault THEN Fail(r, StorageError, TRUE)
       ELSE IF ~profiles[chat[r].user].present
       THEN Answer(r, Resp(404, FALSE, "user not found", NoData))
       ELSE SetChat(r, [chat[r] EXCEPT !.pc = "context"])
    /\ UNCHANGED <<now, limiterVars, profiles, storeVars, admissions, appVars, rows, uuids>>

\* LIMIT 6 of the history query
history_limit == 6

Reverse(q) == [i \in 1..Len(q) |-> q[Len(q) + 1 - i]]

\* WHERE user_id = ?: the rows of a user, by position in the table
UserRowIds(u) == {i \in 1..Len(rows) : rows[i].user_id = u}

\* ORDER BY created_at DESC LIMIT k over the rows ids: every sequence the
\* store may return (rows of equal created_at come in any order)
RECURSIVE OrderedFetch(_, _)
OrderedFetch(ids, k) ==
    IF k = 0 \/ ids = {} THEN {<<>>}
    ELSE UNION {{<<i>> \o rest : rest \in OrderedFetch(ids \ {i}, k - 1)} :
                   i \in {x \in ids : \A y \in ids : rows[x].created_at >= rows[y].created_at}}

Msg(role, content) == [role |-> role, content |-> content]

HistoryOrder_as_fetched(context_messages) == context_messages
\* line 104: for msg in reversed(context_messages)
HistoryOrder(context_messages) == Reverse(context_messages)

\* lines 110-117: each row gives its user message, then its assistant response
RECURSIVE ContextOf(_)
ContextOf(ids) ==
    IF ids = <<>> THEN <<>>
    ELSE <<Msg("user", rows[Head(ids)].message),
           Msg("assistant", rows[Head(ids)].response)>> \o ContextOf(Tail(ids))

\* lines 120-130: the list handed to the completion call
BuildMessages(profile, context, sanitized_message) ==
    <<Msg("system", create_system_prompt(profile))>>
        \o context \o <<Msg("user", sanitized_message)>>

\* lines 82-130: the history is read and the message list is built
ChatContext(r, fault) ==
    /\ chat[r].pc = "context"
    /\ IF fault THEN Fail(r, StorageError, TRUE)
       ELSE \E context_messages \in OrderedFetch(UserRowIds(chat[r].user), history_limit) :
              LET ids == HistoryOrder(context_messages) IN
              SetChat(r, [chat[r] EXCEPT
                             !.pc = "complete",
                             !.context_ids = ids,
                             !.messages = BuildMessages(profiles[chat[r].user],
                                                        ContextOf(ids),
                                                        chat[r].sanitized_message)])
    /\ UNCHANGED <<now, limiterVars, profiles, storeVars, admissions, appVars, rows, uuids>>

RECURSIVE InputWords(_)
InputWords(messages) ==
    IF messages = <<>> THEN 0
    ELSE Words(Head(messages).content) + InputWords(Tail(messages))

\* what the provider does with the one request: kind is "ok" (a 200 with a
\* candidate text), "missing_key" (no GEMINI_API_KEY), "timeout", "status"
\* (not 200), "no_candidates" or "malformed" (a candidate without text)
Outcome(kind, text) == [kind |-> kind, text |-> text, usage |-> NoUsage]
\* a 200 whose body also carries the provider's own token count
OutcomeWithUsage(text, usage) == [kind |-> "ok", text |-> text, usage |-> usage]

call_gemini_api_retrying(messages, outcome) ==
    IF outcome.kind = "missing_key"
    THEN [raised |-> TRUE, response |-> <<>>, total_tokens |-> 0, posts |-> 0]
    ELSE IF outcome.kind = "ok"
    THEN [raised |-> FALSE, response |-> outcome.text,
          total_tokens |-> InputWords(messages) + Words(outcome.text), posts |-> 1]
    ELSE [raised |-> TRUE, response |-> <<>>, total_tokens |-> 0, posts |-> 2]
\* call_gemini_api: whether it raised, its result, and the requests it posted
call_gemini_api(messages, outcome) ==
    IF outcome.kind = "missing_key"
    THEN [raised |-> TRUE, response |-> <<>>, total_tokens |-> 0, posts |-> 0]
    ELSE IF outcome.kind = "ok"
    THEN [raised |-> FALSE, response |-> outcome.text,
          total_tokens |-> InputWords(messages) + Words(outcome.text), posts |-> 1]
    ELSE [raised |-> TRUE, response |-> <<>>, total_tokens |-> 0, posts |-> 1]

\* lines 132-155: the completion call; any exception of it is replaced by
\* the fallback text.  The message list is not read after the call and is
\* dropped from the request's state.
ChatComplete(r, outcome) ==
    LET result == call_gemini_api(chat[r].messages, outcome)
        fallback == get_fallback_response(chat[r].sanitized_message, chat[r].is_emergency)
    IN /\ chat[r].pc = "complete"
       /\ IF result.raised
          THEN SetChat(r, [chat[r] EXCEPT
                              !.pc = "persist",
                              !.context_ids = <<>>,
                              !.messages = <<>>,
                              !.posts = @ + result.posts,
                              !.api_failed = TRUE,
                              !.ai_response = fallback,
                              !.tokens_used = Words(chat[r].sanitized_message)
                                              + Words(fallback)])
          ELSE SetChat(r, [chat[r] EXCEPT
                              !.pc = "persist",
                              !.context_ids = <<>>,
                              !.messages = <<>>,
                              !.posts = @ + result.posts,
                              !.provider = [prompt_words |-> InputWords(chat[r].messages),
                                            text |-> outcome.text,
                                            usage |-> outcome.usage],
                              !.ai_response =
                                  WithEmergencyWarning(result.response, chat[r].is_emergency),
                              !.tokens_used = result.total_tokens])
       /\ UNCHANGED <<now, limiterVars, profiles, storeVars, admissions, appVars, rows, uuids>>

ChatRow_one_id(id, c, created_at) ==
    [id |-> 1, user_id |-> c.user, message |-> c.sanitized_message,
     response |-> c.ai_response, tokens_used |-> c.tokens_used,
     created_at |-> created_at]
ChatRow_raw_message(id, c, created_at) ==
    [id |-> id, user_id |-> c.user, message |-> c.body.message,
     response |-> c.ai_response, tokens_used |-> c.tokens_used,
     created_at |-> created_at]
\* lines 162-171: the one row inserted for a request
ChatRow(id, c, created_at) ==
    [id |-> id, user_id |-> c.user, message |-> c.sanitized_message,
     response |-> c.ai_response, tokens_used |-> c.tokens_used,
     created_at |-> created_at]

ChatPersist_no_insert(r, fault) ==
    /\ chat[r].pc = "persist"
    /\ uuids' = uuids + 1
    /\ IF fault
       THEN Fail(r, StorageError, TRUE)
       ELSE SetChat(r, [chat[r] EXCEPT !.pc = "respond", !.message_id = uuids + 1])
    /\ UNCHANGED <<now, limiterVars, profiles, storeVars, admissions, appVars, rows>>
\* lines 157-173: a uuid4 is drawn, the row is inserted and committed
ChatPersist(r, fault) ==
    /\ chat[r].pc = "persist"
    /\ uuids' = uuids + 1
    /\ IF fault
       THEN Fail(r, StorageError, TRUE) /\ UNCHANGED rows
       ELSE /\ rows' = Append(rows, ChatRow(uuids + 1, chat[r], now))
            /\ SetChat(r, [chat[r] EXCEPT !.pc = "respond", !.message_id = uuids + 1])
    /\ UNCHANGED <<now, limiterVars, profiles, storeVars, admissions, appVars>>

\* lines 175-199: the answer 200
ChatRespond(r) ==
    /\ chat[r].pc = "respond"
    /\ Answer(r, Resp(200, TRUE, "",
                      [response |-> chat[r].ai_response,
                       message_id |-> chat[r].message_id,
                       tokens_used |-> chat[r].tokens_used,
                       is_emergency |-> chat[r].is_emergency,
                       remaining |-> chat[r].rate_limit.remaining,
                       reset_after |-> chat[r].rate_limit.resetAfter \div 1000]))
    /\ UNCHANGED <<now, limiterVars, profiles, storeVars, admissions, appVars, rows, uuids>>

\* the clock of the chat requests moves on by a tick
Tick(max) ==
    /\ now < max
    /\ now' = now + 1
    /\ UNCHANGED <<limiterVars, chatVars>>

----------------------------------------------------------------------------
(* Inputs of the chat requests *)

MsgPlain == <<"H", "i">>
MsgBleeding == <<" ", "noon", "zain", "yeh", "feh", " ", "H", "i", "\n">>
MsgBlank == <<" ", "\t">>
MsgTooLong == [i \in 1..(max_message_chars + 1) |-> "a"]

ValidBodies ==
    {Body(TRUE, MsgPlain, FALSE, 0),
     Body(TRUE, MsgBleeding, TRUE, temperature_max)}
BlankBodies == {Body(TRUE, MsgBlank, TRUE, temperature_min)}
InvalidBodies ==
    {Body(FALSE, <<>>, FALSE, 0),
     Body(TRUE, <<>>, FALSE, 0),
     Body(TRUE, MsgTooLong, FALSE, 0),
     Body(TRUE, MsgPlain, TRUE, temperature_min - 1),
     Body(TRUE, MsgPlain, TRUE, temperature_max + 1)}

AiPlain == <<"o", "k">>
AiWithSign == <<"!", " ", "o", "k">>
Failures ==
    {Outcome(k, <<>>) : k \in {"missing_key", "timeout", "status", "no_candidates", "malformed"}}
Outcomes == Failures \cup {Outcome("ok", AiPlain), Outcome("ok", AiWithSign)}

\* the steps of a request once it is received
ChatSteps(r, faults, outcomes) ==
    \/ ChatRateCheck(r)
    \/ ChatSanitize(r)
    \/ \E f \in faults : ChatProfile(r, f)
    \/ \E f \in faults : ChatContext(r, f)
    \/ \E o \in outcomes : ChatComplete(r, o)
    \/ \E f \in faults : ChatPersist(r, f)
    \/ ChatRespond(r)

\* calls of the limiter made so far in chat requests (all in one window)
RECURSIVE SumCounts(_)
SumCounts(us) ==
    IF us = {} THEN 0
    ELSE LET u == CHOOSE x \in us : TRUE
         IN (IF HasKey(requests, u) THEN Entry(u).count ELSE 0) + SumCounts(us \ {u})
ChatCalls == SumCounts(Users)

NextChat ==
    \/ \E r \in SerialRequests, f \in BOOLEAN,
          b \in ValidBodies \cup BlankBodies \cup InvalidBodies :
            ChatCalls < MaxChatCalls /\ ChatReceive(r, "u1", b, f)
    \/ \E r \in SerialRequests : ChatSteps(r, BOOLEAN, Outcomes)
    \/ Tick(MaxChatNow)

SpecChat == InitLimiter /\ [][NextChat]_vars

\* the request has passed the step that builds the message list
ContextBuilt(r) == chat[r].messages # <<>>

\* C4: an admitted request with a non-empty sanitized message whose completion
\* call fails (and whose insert does not fail) is answered 200 with
\* success=true, its text is the fallback text chosen by the emergency flag
\* alone, and exactly one row was persisted for it.
C4_FallbackOnCompletionFailure ==
    \A r \in ChatRequests :
        (chat[r].pc = "responded" /\ chat[r].api_failed /\ chat[r].raised = NoExc)
        => /\ chat[r].resp.status = 200
           /\ chat[r].resp.success
           /\ chat[r].resp.data.response =
                 (IF chat[r].is_emergency THEN EmergencyFallbackText
                  ELSE GenericFallbackText)
           /\ Len(rows) = chat[r].rows_before + 1
           /\ Cardinality({i \in 1..Len(rows) :
                              rows[i].id = chat[r].resp.data.message_id}) = 1

\* the message with an emergency keyword, the provider timing out
C4_Witness ==
    \E r \in ChatRequests :
        /\ chat[r].pc = "responded"
        /\ chat[r].api_failed
        /\ chat[r].body.message = MsgBleeding
        /\ chat[r].is_emergency
        /\ chat[r].posts = 1
        /\ chat[r].resp.status = 200
        /\ chat[r].resp.data.response = EmergencyFallbackText

\* C8: a row is written whole by the one insert that follows the completion
\* call: no row of a request exists before that step, and the row of a
\* request holds the sanitized message and the response text that the 200
\* answer returns.
C8_TurnWrittenWhole ==
    /\ \A i \in 1..Len(rows) : rows[i].message # <<>>
    /\ \A r \in ChatRequests :
        /\ chat[r].pc \in {"rate_check", "sanitize", "profile", "context", "complete", "persist"}
           => Len(rows) = chat[r].rows_before
        /\ \A i \in 1..Len(rows) :
              rows[i].id = chat[r].message_id
              => /\ chat[r].pc \in {"respond", "responded"}
                 /\ rows[i].user_id = chat[r].user
                 /\ rows[i].message = Prefix(Strip(chat[r].body.message), max_message_chars)
                 /\ rows[i].response = chat[r].ai_response
        /\ (chat[r].pc = "responded" /\ chat[r].resp.status = 200)
           => \E i \in 1..Len(rows) :
                 /\ rows[i].id = chat[r].resp.data.message_id
                 /\ rows[i].response = chat[r].resp.data.response
                 /\ \A j \in 1..Len(rows) : rows[j].id = rows[i].id => j = i

\* a 200 whose stored prompt is the stripped message, not the one sent
C8_Witness ==
    \E r \in ChatRequests :
        /\ chat[r].pc = "responded"
        /\ chat[r].resp.status = 200
        /\ ~chat[r].api_failed
        /\ \E i \in 1..Len(rows) :
              /\ rows[i].id = chat[r].resp.data.message_id
              /\ rows[i].message # chat[r].body.message
              /\ rows[i].response = chat[r].resp.data.response

\* C9 (as claimed): a request whose body fails validation is answered 400
\* and persists no row.
C9_InvalidBodyAnswered400 ==
    \A r \in ChatRequests :
        (chat[r].pc = "responded" /\ ~ChatSchemaLoad(chat[r].body).ok)
        => (chat[r].resp.status = 400 /\ Len(rows) = chat[r].rows_before)

\* C10 (as claimed): an unexpected exception while handling the request is
\* answered with a 500 whose error text does not give the exception's message.
C10_GenericServerError ==
    \A r \in ChatRequests :
        (chat[r].pc = "responded" /\ chat[r].raised.type = "OperationalError")
        => (chat[r].resp.status = 500 /\ chat[r].resp.error # chat[r].raised.msg)

\* C11 (as claimed): call_gemini_api never raises to its caller: whatever the
\* provider does, chat's call of it returns a result and the handler of
\* exceptions around the call is never entered.
C11_CompletionNeverRaises ==
    \A r \in ChatRequests : ~chat[r].api_failed

----------------------------------------------------------------------------
(* The history of one user as it fills the table *)

HistoryBody == Body(TRUE, MsgPlain, FALSE, 0)

RowsOf(u) == Cardinality(UserRowIds(u))

\* the rows written at the present reading of the clock
RowsNow == Cardinality({i \in 1..Len(rows) : rows[i].created_at = now})

NextContext ==
    \/ \E r \in SerialRequests, u \in Users :
          /\ Len(rows) <= MaxHistoryRows
          /\ RowsNow < MaxTies
          /\ u # "u1" => RowsOf(u) < MaxOtherRows
          /\ ChatReceive(r, u, HistoryBody, FALSE)
    \/ \E r \in SerialRequests : ChatSteps(r, {FALSE}, {Outcome("timeout", <<>>)})
    \/ Tick(MaxHistoryNow)

SpecContext == InitLimiter /\ [][NextContext]_vars

\* C5: the message list has one system message, first; the new sanitized
\* message, last; and between them the user's most recent stored rows, oldest
\* first, each as its user message followed by its assistant response.
C5_ContextOrder ==
    \A r \in ChatRequests :
        ContextBuilt(r) =>
        LET m == chat[r].messages
            ids == chat[r].context_ids
            u == chat[r].user
            stored == {i \in UserRowIds(u) : i <= chat[r].rows_before}
            used == {ids[k] : k \in 1..Len(ids)}
        IN /\ Len(m) = 2 * Len(ids) + 2
           /\ m[1].role = "system"
           /\ \A i \in 2..Len(m) : m[i].role # "system"
           /\ m[Len(m)] = Msg("user", Prefix(Strip(chat[r].body.message), max_message_chars))
           /\ \A k \in 1..Len(ids) :
                 /\ m[2 * k] = Msg("user", rows[ids[k]].message)
                 /\ m[2 * k + 1] = Msg("assistant", rows[ids[k]].response)
           /\ used \subseteq stored
           /\ Cardinality(used) = Len(ids)
           /\ stored # {} => used # {}
           /\ \A k \in 1..Len(ids), l \in 1..Len(ids) :
                 k < l => rows[ids[k]].created_at <= rows[ids[l]].created_at
           /\ \A i \in used, j \in stored \ used :
                 rows[j].created_at <= rows[i].created_at

\* a list built while the table holds older rows of the user that are left
\* out, rows of equal and of different age, and a row of another user
C5_Witness ==
    \E r \in ChatRequests :
        LET ids == chat[r].context_ids
            stored == {i \in UserRowIds(chat[r].user) : i <= chat[r].rows_before}
        IN /\ ContextBuilt(r)
           /\ Len(ids) >= 2
           /\ Cardinality(stored) > Len(ids)
           /\ rows[ids[1]].created_at < rows[ids[Len(ids)]].created_at
           /\ \E i \in 1..chat[r].rows_before : rows[i].user_id # chat[r].user

\* C6 (as claimed): the message list holds at most 6 history messages (3
\* pairs) between the system message and the new message.
C6_AtMostSixHistoryMessages ==
    \A r \in ChatRequests : ContextBuilt(r) => Len(chat[r].messages) - 2 <= 6

----------------------------------------------------------------------------
(* One user running into the rate limit *)

NextChatLimit ==
    \/ \E r \in SerialRequests, b \in ValidBodies \cup BlankBodies :
          /\ b \in ValidBodies => Len(rows) < MaxLimitRows
          /\ ChatReceive(r, "u1", b, FALSE)
    \/ \E r \in SerialRequests : ChatSteps(r, {FALSE}, {Outcome("timeout", <<>>)})

SpecChatLimit == InitLimiter /\ [][NextChatLimit]_vars

\* C7: a request that the rate limiter rejects is answered 429 at once: no row
\* is persisted, no completion request is posted and the user's count stays
\* as it was.
C7_RejectedDoesNothing ==
    \A r \in ChatRequests :
        (chat[r].rate_limit # NoRet /\ ~chat[r].rate_limit.allowed)
        => /\ chat[r].pc = "responded"
           /\ chat[r].resp.status = 429
           /\ Len(rows) = chat[r].rows_before
           /\ chat[r].posts = 0
           /\ chat[r].messages = <<>>
           /\ Entry(chat[r].user).count = chat[r].count_before

\* a valid message rejected because the window already admitted 60
C7_Witness ==
    \E r \in ChatRequests :
        /\ chat[r].pc = "responded"
        /\ chat[r].resp.status = 429
        /\ chat[r].body \in ValidBodies
        /\ chat[r].count_before = limit
        /\ Entry(chat[r].user).count = limit

----------------------------------------------------------------------------
(* The paths of a request, the users row being removed under it included *)

\* the users row of u is removed from the table by hand while a request of u
\* is between auth_middleware's SELECT and the handler's own (lines 63-75)
UsersRowRemoved(u) ==
    /\ profiles[u].present
    /\ \E r \in ChatRequests :
          chat[r].user = u /\ chat[r].pc \in {"rate_check", "sanitize", "profile"}
    /\ profiles' = [profiles EXCEPT ![u].present = FALSE]
    /\ UNCHANGED <<now, limiterVars, rows, uuids, chat, storeVars, admissions, appVars>>

\* requests of one user with bodies of the given kinds, the store failing or
\* not when the connection is opened, on up to the rate limit
ChatPaths(bodies, faults) ==
    \/ \E r \in SerialRequests, b \in bodies, f \in faults :
          /\ b \in ValidBodies => uuids < MaxLimitRows
          /\ ChatReceive(r, "u1", b, f)
    \/ \E r \in SerialRequests : ChatSteps(r, BOOLEAN, Outcomes)
    \/ \E u \in Users : UsersRowRemoved(u)

NextChatPaths == ChatPaths(ValidBodies \cup BlankBodies \cup InvalidBodies, BOOLEAN)

\* the same with bodies that pass ChatSchema and a connection that opens
NextChatOrder == ChatPaths(ValidBodies \cup BlankBodies, {FALSE})

SpecChatOrder == InitLimiter /\ [][NextChatOrder]_vars

SpecChatPaths == InitLimiter /\ [][NextChatPaths]_vars

\* C12: a request posts at most one completion request (a failed one is not
\* tried again), and a request that is rejected by the limiter, fails
\* validation, is blank after sanitization or has no users row posts none.
C12_AtMostOneCompletionRequest ==
    \A r \in ChatRequests :
        /\ chat[r].posts <= 1
        /\ (chat[r].pc = "responded" /\ chat[r].resp.status \in {429, 400, 404})
           => chat[r].posts = 0
        /\ (chat[r].pc = "responded" /\ ~ChatSchemaLoad(chat[r].body).ok)
           => chat[r].posts = 0

\* a failed completion request that was posted once and answered by fallback
C12_Witness ==
    \E r \in ChatRequests :
        /\ chat[r].pc = "responded"
        /\ chat[r].api_failed
        /\ chat[r].posts = 1
        /\ ~chat[r].is_emergency
        /\ chat[r].resp.status = 200

\* the case of C12 without a users row: answered 404, nothing posted
C12_NoUsersRow ==
    \E r \in ChatRequests :
        chat[r].pc = "responded" /\ chat[r].resp.status = 404 /\ chat[r].posts = 0

\* the states of a request after the rate check admitted it
AfterRateCheck == {"sanitize", "profile", "context", "complete", "persist", "respond"}

\* the completion call of the request has resolved, by a text or by fallback
Completed(r) == chat[r].posts = 1 \/ chat[r].api_failed

\* the one row of the request is in the table, written after the request came
Persisted(r) ==
    /\ Len(rows) = chat[r].rows_before + 1
    /\ rows[Len(rows)].id = chat[r].message_id
    /\ \A i \in 1..Len(rows) : rows[i].id = chat[r].message_id => i = Len(rows)

\* the order of the steps of a request, common to C13 as claimed and as amended
RequestOrder(r) ==
    /\ chat[r].pc \in AfterRateCheck => chat[r].rate_limit.allowed
    /\ (ContextBuilt(r) \/ chat[r].pc \in {"complete", "persist", "respond"})
       => (chat[r].rate_limit.allowed /\ chat[r].sanitized_message # <<>>)
    /\ chat[r].pc \in {"persist", "respond"} => Completed(r)
    /\ chat[r].pc = "respond" => (Completed(r) /\ Persisted(r))
    /\ (chat[r].pc = "responded" /\ chat[r].resp.status = 200)
       => (chat[r].rate_limit.allowed /\ Completed(r) /\ Persisted(r))
    /\ (chat[r].pc = "responded" /\ chat[r].rate_limit # NoRet /\ ~chat[r].rate_limit.allowed)
       => (chat[r].resp.status = 429 /\ Len(rows) = chat[r].rows_before)

\* C13 (as claimed): the steps of a request come in the order received, rate
\* checked, then rejected or context built, completed or fallback, persisted,
\* responded; and the only outcomes that reach the client are the rejection
\* (429) and the 200 sent after the row was persisted.
C13_OnlyRejectedOrPersisted ==
    \A r \in ChatRequests :
        /\ RequestOrder(r)
        /\ chat[r].pc = "responded" => chat[r].resp.status \in {429, 200}

\* C13 (as amended): the same order; the only answers that are not errors are
\* the rejection (429) and the 200 sent after the row was persisted; a request
\* may also end in an error answer (400, 404 or 500), which is never a
\* success.
C13_RequestOrder ==
    \A r \in ChatRequests :
        /\ RequestOrder(r)
        /\ chat[r].pc = "responded" =>
              /\ chat[r].resp.status \in {429, 200, 400, 404, 500}
              /\ chat[r].resp.success <=> chat[r].resp.status = 200

\* a request admitted, completed and persisted, about to be answered, after an
\* earlier request of the user was answered
C13_Witness ==
    \E r \in ChatRequests :
        /\ chat[r].pc = "respond"
        /\ chat[r].count_before >= 1
        /\ Persisted(r)
        /\ rows[Len(rows)].message = chat[r].sanitized_message

\* a request of the user answered 429 at the limit
C13_RejectedReached ==
    \E r \in ChatRequests :
        chat[r].pc = "responded" /\ chat[r].resp.status = 429 /\ chat[r].posts = 0

----------------------------------------------------------------------------
(* Messages tried against the emergency keywords *)

\* the letters of one of the keywords, a blank and a Latin capital
KeywordAlphabet == {"ghain", "reh", "qaf", " ", "H"}

KeywordMessages == UNION {[1..n -> KeywordAlphabet] : n \in 1..MaxKeywordMsgLen}

\* the first request of a user, with any of the messages
NextKeywords ==
    \/ \E r \in SerialRequests, m \in KeywordMessages :
          /\ chat[r].pc = "idle"
          /\ ChatReceive(r, "u1", Body(TRUE, m, FALSE, 0), FALSE)
    \/ \E r \in SerialRequests : ChatSteps(r, {FALSE}, {Outcome("ok", AiPlain)})

SpecKeywords == InitLimiter /\ [][NextKeywords]_vars

\* two characters are the same up to case
SameUpToCase(c, d) ==
    \/ c = d
    \/ {c, d} = {"H", "h"}
    \/ {c, d} = {"I", "i"}

\* some keyword of the list occurs in the message at some place, up to case
HasKeywordUpToCase(message) ==
    \E n \in 1..Len(emergency_keywords) :
        \E i \in 1..Len(message) :
            /\ i + Len(emergency_keywords[n]) - 1 <= Len(message)
            /\ \A j \in 1..Len(emergency_keywords[n]) :
                  SameUpToCase(message[i + j - 1], emergency_keywords[n][j])

\* C14: the flag computed for the sanitized message is true exactly when some
\* keyword of the list occurs in it as a substring, compared without regard to
\* case, and the is_emergency field of the 200 answer is that flag.
C14_EmergencyIffKeyword ==
    \A r \in ChatRequests :
        /\ chat[r].pc \in {"profile", "context", "complete", "persist", "respond"}
           => (chat[r].is_emergency <=> HasKeywordUpToCase(chat[r].sanitized_message))
        /\ (chat[r].pc = "responded" /\ chat[r].resp.status = 200)
           => (chat[r].resp.data.is_emergency
                 <=> HasKeywordUpToCase(Prefix(Strip(chat[r].body.message), max_message_chars)))

\* a keyword other than the first of the list, after a capital, flagged in
\* the answer
C14_Witness ==
    \E r \in ChatRequests :
        /\ chat[r].pc = "responded"
        /\ chat[r].resp.status = 200
        /\ chat[r].body.message = <<"H", "ghain", "reh", "qaf">>
        /\ chat[r].resp.data.is_emergency

\* a message with the letters of a keyword in another order, not flagged
C14_NoKeyword ==
    \E r \in ChatRequests :
        /\ chat[r].pc = "responded"
        /\ chat[r].resp.status = 200
        /\ chat[r].body.message = <<"qaf", "reh", "ghain">>
        /\ ~chat[r].resp.data.is_emergency

----------------------------------------------------------------------------
(* DELETE /history: the handler clear_history of routes/ai.py *)

\* timedelta(days=1), in ticks
DayTicks == 24 * 60 * 60 * 1000 * TicksPerMs

older_than_days_min == 1
older_than_days_max == 365

\* ClearHistorySchema().load(request.json); days = 0 stands for an absent or
\* null older_than_days
ClearHistorySchemaLoad(confirm, days) ==
    IF days # 0 /\ (days < older_than_days_min \/ days > older_than_days_max)
    THEN [ok |-> FALSE, error |-> ValidationError("Must be greater than or equal to 1 and less than or equal to 365.")]
    ELSE [ok |-> TRUE, error |-> NoExc]

\* the statement of lines 352-361 has the placeholder %s for either store;
\* sqlite3 takes ? only and raises OperationalError on it
ClearStatementRuns == database = "postgresql"

ClearMatches_any_user(row, u, days, t) ==
    days # 0 => row.created_at < t - days * DayTicks
\* WHERE user_id = %s [AND created_at < %s]
ClearMatches(row, u, days, t) ==
    /\ row.user_id = u
    /\ (days # 0 => row.created_at < t - days * DayTicks)

\* the table after DELETE FROM ai_chat_messages WHERE ...
RowsAfterClear(u, days, t) ==
    LET Keep(row) == ~ClearMatches(row, u, days, t) IN SelectSeq(rows, Keep)

\* ON DELETE CASCADE of ai_feedback.message_id
FeedbackAfterClear(remaining) ==
    LET Keep(f) == \E i \in 1..Len(remaining) : remaining[i].id = f.message_id
    IN SelectSeq(feedback, Keep)

ClearResult(u, confirm, days, after, status, deleted_count) ==
    [user |-> u, confirm |-> confirm, days |-> days, at |-> now,
     before |-> rows, after |-> after, status |-> status, deleted_count |-> deleted_count]

\* lines 334-383, the whole request
clear_history(u, confirm, days) ==
    LET after == RowsAfterClear(u, days, now) IN
    /\ profiles[u].present
    /\ IF ~ClearHistorySchemaLoad(confirm, days).ok
       THEN /\ cleared' = ClearResult(u, confirm, days, rows, 500, -1)
            /\ UNCHANGED <<rows, feedback>>
       ELSE IF ~confirm
       THEN /\ cleared' = ClearResult(u, confirm, days, rows, 400, -1)
            /\ UNCHANGED <<rows, feedback>>
       ELSE IF ~ClearStatementRuns
       THEN /\ cleared' = ClearResult(u, confirm, days, rows, 500, -1)
            /\ UNCHANGED <<rows, feedback>>
       ELSE /\ rows' = after
            /\ feedback' = FeedbackAfterClear(after)
            /\ cleared' = ClearResult(u, confirm, days, after, 200, Len(rows) - Len(after))
    /\ UNCHANGED <<now, limiterVars, profiles, uuids, chat, database, admissions, appVars, fb>>

\* a day goes by
DayPasses(max) ==
    /\ now + DayTicks <= max * DayTicks
    /\ now' = now + DayTicks
    /\ UNCHANGED <<limiterVars, chatVars>>

\* the stores the service can be configured with
InitStore ==
    /\ now = 0
    /\ requests = [u \in Users |-> 0]
    /\ heap = <<>>
    /\ last = NoResult
    /\ calls = [u \in Users |-> NoCalls]
    /\ admitted = [u \in Users |-> 0]
    /\ threads = [th \in Threads |-> Idle]
    /\ InitChatVars
    /\ database \in Databases

ClearDays == {0, 1, older_than_days_max + 1}

\* no POST /chat request is inside its handler
ChatQuiet == \A r \in ChatRequests : chat[r].pc \in {"idle", "responded"}

NextClear ==
    \/ \E r \in SerialRequests, u \in Users :
          /\ uuids < MaxClearRows
          /\ cleared = NoClear
          /\ ChatReceive(r, u, HistoryBody, FALSE)
    \/ \E r \in SerialRequests : ChatSteps(r, {FALSE}, {Outcome("timeout", <<>>)})
    \/ DayPasses(MaxClearDays)
    \/ \E u \in Users, confirm \in BOOLEAN, days \in ClearDays :
          ChatQuiet /\ clear_history(u, confirm, days)

SpecClear == InitStore /\ [][NextClear]_vars

\* the rows the claim wants gone: the user's, older than the cutoff
OlderThan(row, u, days, t) == row.user_id = u /\ row.created_at < t - days * DayTicks

\* C15 (as claimed): a confirmed DELETE /history with older_than_days = d
\* removes exactly the requesting user's rows older than now - d days, answers
\* with their number as deleted_count, and leaves every other row as it was.
C15_ClearDeletesOlderOnly ==
    (cleared.status # 0 /\ cleared.confirm
        /\ cleared.days \in older_than_days_min..older_than_days_max)
    => LET Keep(row) == ~OlderThan(row, cleared.user, cleared.days, cleared.at)
       IN /\ cleared.status = 200
          /\ cleared.after = SelectSeq(cleared.before, Keep)
          /\ cleared.deleted_count = Len(cleared.before) - Len(cleared.after)

\* the same where the store is PostgreSQL
ClearOnPostgresql == database = "postgresql" => C15_ClearDeletesOlderOnly

\* on PostgreSQL: old rows of the user removed, a newer one and a row of
\* another user kept
ClearOnPostgresqlReached ==
    /\ cleared.status = 200
    /\ cleared.days = 1
    /\ cleared.deleted_count >= 1
    /\ \E i \in 1..Len(cleared.after) : cleared.after[i].user_id = cleared.user
    /\ \E i \in 1..Len(cleared.after) : cleared.after[i].user_id # cleared.user

----------------------------------------------------------------------------
(* Messages of whitespace only *)

\* the body passed ChatSchema and its message has whitespace only
WhitespaceOnly(r) ==
    /\ ChatSchemaLoad(chat[r].body).ok
    /\ \A i \in 1..Len(chat[r].body.message) : chat[r].body.message[i] \in Whitespace

----------------------------------------------------------------------------
(* POST /feedback: the handler submit_feedback of routes/ai.py.  A          *)
(* message_id is 0 for a string that is not in the form of a uuid, else the *)
(* uuid drawn as the k-th for a chat row.                                   *)

rating_min == 1
rating_max == 5

\* AIFeedbackSchema().load(request.json)
AIFeedbackSchemaLoad(message_id, rating) ==
    IF message_id = 0
    THEN [ok |-> FALSE, error |-> ValidationError("String does not match expected pattern.")]
    ELSE IF rating < rating_min \/ rating > rating_max
    THEN [ok |-> FALSE, error |-> ValidationError("Must be greater than or equal to 1 and less than or equal to 5.")]
    ELSE [ok |-> TRUE, error |-> NoExc]

OwnedMessage_any_user(message_id, u) ==
    \E i \in 1..Len(rows) : rows[i].id = message_id
\* SELECT id FROM ai_chat_messages WHERE id = ? AND user_id = ?
OwnedMessage(message_id, u) ==
    \E i \in 1..Len(rows) : rows[i].id = message_id /\ rows[i].user_id = u

\* the user whose row has the id, "none" when no row has it
OwnerOf(message_id) ==
    IF \E i \in 1..Len(rows) : rows[i].id = message_id
    THEN rows[CHOOSE i \in 1..Len(rows) : rows[i].id = message_id].user_id
    ELSE "none"

\* FOREIGN KEY (message_id) REFERENCES ai_chat_messages (id): PostgreSQL
\* refuses the insert when no row has the id; SQLite does not enforce foreign
\* keys unless the connection turns them on, and get_db does not
ForeignKeyHolds(message_id) ==
    database = "postgresql" => \E i \in 1..Len(rows) : rows[i].id = message_id

\* lines 458-487: the body is loaded and the message looked up
FeedbackVerify(u, message_id, rating) ==
    LET fresh == [FbIdle EXCEPT !.user = u, !.message_id = message_id, !.rating = rating,
                                !.owner = OwnerOf(message_id), !.drawn = fb.drawn]
    IN /\ fb.pc \in {"idle", "responded"}
       /\ profiles[u].present
       /\ IF ~AIFeedbackSchemaLoad(message_id, rating).ok
          THEN fb' = [fresh EXCEPT !.pc = "responded", !.status = 500]
          ELSE IF ~OwnedMessage(message_id, u)
          THEN fb' = [fresh EXCEPT !.pc = "responded", !.status = 404]
          ELSE fb' = [fresh EXCEPT !.pc = "insert", !.found = TRUE]
       /\ UNCHANGED <<now, limiterVars, profiles, rows, uuids, chat, database, admissions, appVars, feedback, cleared>>

\* lines 489-516: a uuid4 is drawn, the row is inserted and committed
FeedbackInsert ==
    /\ fb.pc = "insert"
    /\ IF ~ForeignKeyHolds(fb.message_id)
       THEN /\ fb' = [fb EXCEPT !.pc = "responded", !.status = 500, !.drawn = @ + 1]
            /\ UNCHANGED feedback
       ELSE /\ feedback' = Append(feedback, [id |-> fb.drawn + 1, user_id |-> fb.user,
                                             message_id |-> fb.message_id,
                                             rating |-> fb.rating])
            /\ fb' = [fb EXCEPT !.pc = "responded", !.status = 200,
                                !.feedback_id = fb.drawn + 1, !.drawn = @ + 1]
    /\ UNCHANGED <<now, limiterVars, profiles, rows, uuids, chat, database, admissions, appVars, cleared>>

\* message ids tried: not a uuid, the uuids of the rows, and one never drawn
FeedbackIds == 0..(MaxFeedbackRows + 1)
Ratings == {rating_min - 1, rating_max}

NextFeedback ==
    \/ \E r \in SerialRequests, u \in Users :
          /\ uuids < MaxFeedbackRows
          /\ cleared = NoClear
          /\ ChatReceive(r, u, HistoryBody, FALSE)
    \/ \E r \in SerialRequests : ChatSteps(r, {FALSE}, {Outcome("timeout", <<>>)})
    \/ \E u \in Users, message_id \in FeedbackIds, rating \in Ratings :
          /\ ChatQuiet
          /\ fb.drawn < MaxFeedback
          /\ FeedbackVerify(u, message_id, rating)
    \/ FeedbackInsert
    \/ \E u \in Users : ChatQuiet /\ clear_history(u, TRUE, 0)

SpecFeedback == InitStore /\ [][NextFeedback]_vars

\* every feedback row is about a stored chat row of the user who gave it, and
\* a request answered 200 found the message as the user's own
FeedbackOnOwnMessages ==
    /\ \A k \in 1..Len(feedback) :
          \E i \in 1..Len(rows) :
              rows[i].id = feedback[k].message_id /\ rows[i].user_id = feedback[k].user_id
    /\ (fb.pc = "insert" \/ (fb.pc = "responded" /\ fb.status = 200))
       => fb.owner = fb.user

\* no feedback row of the request's user names the request's message
NoFeedbackWritten ==
    \A k \in 1..Len(feedback) :
        ~(feedback[k].user_id = fb.user /\ feedback[k].message_id = fb.message_id)

C17_FeedbackWritten ==
    /\ fb.pc = "responded"
    /\ fb.status = 200
    /\ \E k \in 1..Len(feedback) :
          feedback[k].id = fb.feedback_id /\ feedback[k].message_id = fb.message_id

\* the message removed by DELETE /history between the lookup and the insert
C17_MessageGoneBeforeInsert ==
    /\ fb.pc = "responded"
    /\ fb.found
    /\ fb.status = 500

----------------------------------------------------------------------------
(* Admissions across a window boundary *)

\* one sequential check of u at one of the burst moments, with the moment of
\* every admission recorded
BurstCheck(u) ==
    LET r == check(requests, heap, u, now)
    IN /\ now \in BurstTimes
       /\ now = 0 => admissions[u][now] < MaxEarlyCalls
       /\ requests' = r.reqs
       /\ heap' = r.heap
       /\ last' = [user |-> u, at |-> now, allowed |-> r.ret.allowed,
                   remaining |-> r.ret.remaining, resetAfter |-> r.ret.resetAfter,
                   prevAt |-> calls[u].at, prevResetAfter |-> calls[u].resetAfter]
       /\ admissions' = [admissions EXCEPT ![u][now] = @ + (IF r.ret.allowed THEN 1 ELSE 0)]
       /\ UNCHANGED <<now, calls, admitted, threads, profiles, rows, uuids, chat, storeVars, appVars>>

NextBurst ==
    \/ BurstCheck("u1")
    \/ Advance

SpecBurst == InitLimiter /\ [][NextBurst]_vars

RECURSIVE SumAdmissions(_, _)
SumAdmissions(f, S) ==
    IF S = {} THEN 0
    ELSE LET t == CHOOSE x \in S : TRUE IN f[t] + SumAdmissions(f, S \ {t})

\* the checks of u admitted in the closed interval [a, a + one window]
AdmittedIn(u, a) ==
    SumAdmissions(admissions[u], {t \in BurstTimes : a <= t /\ t <= a + WindowTicks})

\* both windows around the boundary have admitted all they can
BothWindowsExhausted(u) ==
    /\ now = WindowTicks + 1
    /\ SumAdmissions(admissions[u], BurstTimes) = 2 * limit

\* C18 (as claimed): sequential checks of one user are admitted at most
\* 2 x 60 = 120 times in any interval as long as one window, and the 120 are
\* reached across a window boundary: once the window before the boundary and
\* the window after it have each admitted 60, some window-long interval holds
\* all 120 admissions.
C18_TwiceTheLimitReached ==
    /\ \A a \in BurstTimes : AdmittedIn("u1", a) <= 2 * limit
    /\ BothWindowsExhausted("u1") => \E a \in BurstTimes : AdmittedIn("u1", a) = 2 * limit

\* what the limiter does: a window-long interval never holds more than 119
\* admissions, because the admission that opens a window and the first
\* admission of the next window are more than one window apart
AtMostTwiceTheLimitLessOne ==
    \A a \in BurstTimes : AdmittedIn("u1", a) <= 2 * limit - 1

\* 59 admissions at the last moment of a window and 60 right after it
TwiceTheLimitLessOneReached ==
    /\ admissions["u1"][0] = 1
    /\ AdmittedIn("u1", WindowTicks) = 2 * limit - 1

----------------------------------------------------------------------------
(* tokens_used *)

\* the token counts a provider reports with a completion
ProviderUsages == 1..MaxProviderTokens
ReportedOutcomes ==
    {OutcomeWithUsage(text, n) : text \in {AiPlain, AiWithSign}, n \in ProviderUsages}

NextTokens ==
    \/ \E r \in SerialRequests, b \in ValidBodies :
          ChatCalls < MaxChatCalls /\ ChatReceive(r, "u1", b, FALSE)
    \/ \E r \in SerialRequests : ChatSteps(r, {FALSE}, Outcomes \cup ReportedOutcomes)
    \/ Tick(MaxChatNow)

SpecTokens == InitLimiter /\ [][NextTokens]_vars

\* the request is past the completion call
Called(r) == chat[r].pc \in {"persist", "respond", "responded"} /\ chat[r].raised = NoExc

\* C19 (as claimed): after a completion call that succeeded, tokens_used is the
\* usage the provider reported if its response carried one, and otherwise the
\* number of whitespace-delimited words of the prompt plus that of the
\* completion; after a call that failed, it is the number of words of the
\* sanitized message plus that of the fallback text.
C19_TokensUsed ==
    \A r \in ChatRequests :
        Called(r) =>
            chat[r].tokens_used =
                IF chat[r].api_failed
                THEN Words(chat[r].sanitized_message)
                     + Words(get_fallback_response(chat[r].sanitized_message,
                                                   chat[r].is_emergency))
                ELSE IF chat[r].provider.usage # NoUsage
                THEN chat[r].provider.usage
                ELSE chat[r].provider.prompt_words + Words(chat[r].provider.text)

\* what the code does: the words are counted whether or not the provider
\* reported a usage
TokensAreWordCounts ==
    \A r \in ChatRequests :
        Called(r) =>
            chat[r].tokens_used =
                IF chat[r].api_failed
                THEN Words(chat[r].sanitized_message)
                     + Words(get_fallback_response(chat[r].sanitized_message,
                                                   chat[r].is_emergency))
                ELSE chat[r].provider.prompt_words + Words(chat[r].provider.text)

\* a 200 whose tokens_used is a word count although the provider reported
\* another number
UsageReportedAndIgnored ==
    \E r \in ChatRequests :
        /\ chat[r].pc = "responded"
        /\ chat[r].resp.status = 200
        /\ chat[r].provider.usage # NoUsage
        /\ chat[r].resp.data.tokens_used # chat[r].provider.usage

----------------------------------------------------------------------------
(* GET /history *)

page_min == 1
page_limit_min == 1
page_limit_max == 100

\* ChatHistorySchema().load(request.args), for the page and limit parameters
ChatHistorySchemaLoad(page, lim) ==
    /\ page >= page_min
    /\ lim >= page_limit_min
    /\ lim <= page_limit_max

\* both statements of get_history are written with %s, for either store
HistoryStatementRuns == database = "postgresql"

\* count_result[0]: sqlite3.Row can be read by position, the RealDictRow of
\* the PostgreSQL connection only by column name (KeyError)
CountReadByPosition == database = "sqlite"

SortKey(i, sort_by) ==
    IF sort_by = "tokens_used" THEN rows[i].tokens_used ELSE rows[i].created_at

\* ORDER BY <sort_by> <sort_order> over the rows ids: every sequence the
\* store may return
RECURSIVE SortedFetch(_, _, _)
SortedFetch(ids, sort_by, sort_order) ==
    IF ids = {} THEN {<<>>}
    ELSE UNION {{<<i>> \o rest : rest \in SortedFetch(ids \ {i}, sort_by, sort_order)} :
                   i \in {x \in ids : \A y \in ids :
                             IF sort_order = "asc"
                             THEN SortKey(x, sort_by) <= SortKey(y, sort_by)
                             ELSE SortKey(x, sort_by) >= SortKey(y, sort_by)}}

\* LIMIT lim OFFSET (page - 1) * lim
PageOf(order, page, lim) ==
    LET offset == (page - 1) * lim
        upto == IF offset + lim < Len(order) THEN offset + lim ELSE Len(order)
    IN IF offset >= Len(order) THEN <<>> ELSE SubSeq(order, offset + 1, upto)

\* the value chat stores in the is_user column of every row
is_user == TRUE

\* lines 284-298: the rows of the page taken two by two; ai_msg is None for
\* the last row of an odd page and ai_msg.get raises AttributeError
RECURSIVE GroupConversations(_)
GroupConversations(messages) ==
    IF messages = <<>> THEN [raised |-> FALSE, conversations |-> <<>>]
    ELSE IF ~is_user THEN GroupConversations(Tail(Tail(messages)))
    ELSE IF Len(messages) = 1 THEN [raised |-> TRUE, conversations |-> <<>>]
    ELSE LET rest == GroupConversations(Tail(Tail(messages)))
         IN [raised |-> rest.raised,
             conversations |->
                 <<[user_message |-> messages[1], ai_response |-> messages[2],
                    timestamp |-> messages[1].created_at,
                    tokens_used |-> messages[1].tokens_used + messages[2].tokens_used]>>
                 \o rest.conversations]

HistoryResult(u, page, lim, sort_by, sort_order, fetched, status, conversations, total) ==
    [user |-> u, page |-> page, limit |-> lim, sort_by |-> sort_by, sort_order |-> sort_order,
     fetched |-> fetched, status |-> status, conversations |-> conversations, total |-> total]

\* GET /history of user u
get_history(u, page, lim, sort_by, sort_order) ==
    /\ IF ~ChatHistorySchemaLoad(page, lim) \/ ~HistoryStatementRuns
       THEN hist' = HistoryResult(u, page, lim, sort_by, sort_order, <<>>, 500, <<>>, 0 - 1)
       ELSE \E order \in SortedFetch(UserRowIds(u), sort_by, sort_order) :
               LET ids == PageOf(order, page, lim)
                   fetched == [i \in 1..Len(ids) |-> rows[ids[i]]]
                   grouped == GroupConversations(fetched)
               IN IF ~CountReadByPosition \/ grouped.raised
                  THEN hist' = HistoryResult(u, page, lim, sort_by, sort_order,
                                             fetched, 500, <<>>, 0 - 1)
                  ELSE hist' = HistoryResult(u, page, lim, sort_by, sort_order,
                                             fetched, 200, grouped.conversations,
                                             RowsOf(u))
    /\ UNCHANGED <<now, limiterVars, profiles, rows, uuids, chat, storeVars, admissions,
                   stats, loggerVars, ipVars, resetVars, dailyVars>>

HistoryPages == (page_min - 1)..MaxHistoryPage
PageLimits == {page_limit_min - 1, page_limit_max + 1} \cup page_limit_min..MaxPageLimit

NextHistory ==
    \/ \E r \in SerialRequests, u \in Users :
          /\ uuids < MaxHistoryTurns
          /\ hist = NoHistory
          /\ ChatReceive(r, u, HistoryBody, FALSE)
    \/ \E r \in SerialRequests : ChatSteps(r, {FALSE}, {Outcome("timeout", <<>>)})
    \/ Tick(MaxChatNow)
    \/ \E u \in Users, page \in HistoryPages, lim \in PageLimits,
          sort_by \in {"created_at", "tokens_used"}, sort_order \in {"asc", "desc"} :
          ChatQuiet /\ hist = NoHistory /\ get_history(u, page, lim, sort_by, sort_order)

SpecHistory == InitStore /\ [][NextHistory]_vars

\* C30 (as claimed): GET /history succeeds for any number of rows on the
\* requested page, odd or even, and returns each row of the page exactly once
\* as the user_message of a conversation, so there are as many conversations
\* as rows on the page.
C30_OneConversationPerRow ==
    (hist.status # 0 /\ ChatHistorySchemaLoad(hist.page, hist.limit))
    => /\ hist.status = 200
       /\ Len(hist.conversations) = Len(hist.fetched)
       /\ \A i \in 1..Len(hist.fetched) : hist.conversations[i].user_message = hist.fetched[i]

\* what the handler does: a well-formed request is answered 500 on either
\* store, whatever the page holds
HistoryAlwaysFails == hist.status # 0 => hist.status = 500

\* a page of two rows fetched on PostgreSQL and answered 500
HistoryOfTwoRowsFails ==
    /\ database = "postgresql"
    /\ Len(hist.fetched) = 2
    /\ hist.status = 500

----------------------------------------------------------------------------
(* GET /stats, and the stored turns under all the AI routes *)

RECURSIVE SumTokens(_, _)
SumTokens(table, ids) ==
    IF ids = {} THEN 0
    ELSE LET i == CHOOSE x \in ids : TRUE IN table[i].tokens_used + SumTokens(table, ids \ {i})

\* GET /stats of user u: two SELECTs; stats[0] reads the row by position
get_stats(u) ==
    /\ stats' = IF CountReadByPosition
                THEN [user |-> u, status |-> 200, total_messages |-> RowsOf(u),
                      total_tokens |-> SumTokens(rows, UserRowIds(u))]
                ELSE [user |-> u, status |-> 500, total_messages |-> 0 - 1,
                      total_tokens |-> 0 - 1]
    /\ UNCHANGED <<now, limiterVars, profiles, rows, uuids, chat, storeVars, admissions,
                   hist, loggerVars, ipVars, resetVars, dailyVars>>

NextTurns ==
    \/ \E r \in SerialRequests, u \in Users :
          /\ uuids < MaxTurnRows
          /\ cleared = NoClear
          /\ hist = NoHistory
          /\ stats = NoStats
          /\ ChatReceive(r, u, HistoryBody, FALSE)
    \/ \E r \in SerialRequests : ChatSteps(r, {FALSE}, {Outcome("timeout", <<>>)})
    \/ DayPasses(MaxTurnDays)
    \/ \E u \in Users, confirm \in BOOLEAN, days \in {0, 1} :
          ChatQuiet /\ cleared = NoClear /\ clear_history(u, confirm, days)
    \/ \E u \in Users, message_id \in 1..MaxTurnRows :
          /\ ChatQuiet
          /\ fb.drawn < MaxTurnFeedback
          /\ FeedbackVerify(u, message_id, rating_max)
    \/ FeedbackInsert
    \/ \E u \in Users :
          /\ ChatQuiet
          /\ hist = NoHistory
          /\ get_history(u, page_min, page_limit_max, "created_at", "desc")
    \/ \E u \in Users : ChatQuiet /\ stats = NoStats /\ get_stats(u)

SpecTurns == InitStore /\ [][NextTurns]_vars

\* C22: a stored turn is immutable: no step of chat, history, stats or feedback
\* changes a field of a row of ai_chat_messages, and a row leaves the table
\* only in a DELETE /history of the user who owns it.
C22_TurnsImmutable ==
    [][\A i \in 1..Len(rows) :
          /\ \A j \in 1..Len(rows') : rows'[j].id = rows[i].id => rows'[j] = rows[i]
          /\ (\A j \in 1..Len(rows') : rows'[j].id # rows[i].id)
             => /\ cleared' # cleared
                /\ cleared'.status = 200
                /\ cleared'.user = rows[i].user_id]_vars

\* one user's purge has removed rows while a turn of the other user is
\* still stored, after a feedback row and a read of the history
C22_Witness ==
    /\ cleared.status = 200
    /\ cleared.deleted_count > 0
    /\ \E i \in 1..Len(rows) : rows[i].user_id # cleared.user
    /\ hist.status # 0
    /\ fb.pc = "responded"
    /\ fb.status = 200

\* GET /stats answered on SQLite with the user's totals
StatsAnswered ==
    /\ stats.status = 200
    /\ stats.total_messages > 0

----------------------------------------------------------------------------
(* Two POST /chat requests of one user at the same time *)

NextConcurrent ==
    \/ \E r \in ChatRequests, b \in ValidBodies :
          chat[r].pc = "idle" /\ ChatReceive(r, "u1", b, FALSE)
    \/ \E r \in ChatRequests :
          ChatSteps(r, {FALSE}, {Outcome("ok", AiPlain), Outcome("timeout", <<>>)})
    \/ Tick(MaxChatNow)

SpecConcurrent == InitLimiter /\ [][NextConcurrent]_vars

\* the requests that have inserted their row
Inserted == {r \in ChatRequests : chat[r].pc \in {"respond", "responded"} /\ chat[r].message_id # 0}

\* C23: of two admitted POST /chat requests of one user running at the same
\* time, each stores one row of its own, with its own message and response:
\* no row is lost, overwritten or written twice, whatever history either of
\* them read.
C23_EachTurnPersisted ==
    /\ Len(rows) = Cardinality(Inserted)
    /\ \A r \in Inserted :
          /\ Cardinality({i \in 1..Len(rows) : rows[i].id = chat[r].message_id}) = 1
          /\ \A i \in 1..Len(rows) :
                rows[i].id = chat[r].message_id =>
                    /\ rows[i].user_id = chat[r].user
                    /\ rows[i].message = chat[r].sanitized_message
                    /\ rows[i].response = chat[r].ai_response
    /\ \A r, q \in Inserted : r # q => chat[r].message_id # chat[q].message_id

\* both requests were received before either row existed, carried different
\* messages and each was answered 200 with its own row stored
C23_Witness ==
    /\ \A r \in ChatRequests :
          /\ chat[r].pc = "responded"
          /\ chat[r].resp.status = 200
          /\ chat[r].rows_before = 0
    /\ chat["r1"].sanitized_message # chat["r2"].sanitized_message
    /\ Len(rows) = 2
    /\ rows[1].message # rows[2].message

----------------------------------------------------------------------------
(* SimpleSessionLogger *)

session_timeout_seconds == 20
cleaner_sleep_seconds == 5
SecondTicks == 1000 * TicksPerMs

ViewerPath == "/admin/http-logs"
ApiPath == "/apis/healing-herbs"

\* what a call leaves behind: the two collections, the file, the value
\* returned
LoggerState(active, beats, file, ret) ==
    [active |-> active, beats |-> beats, file |-> file, ret |-> ret]

\* lines 231-238: _clear_logs
clear_logs_internal(file) == NoFile

\* lines 44-57: the body of start_logging under the lock
start_logging(session_id) ==
    LET active == active_sessions \cup {session_id}
    IN LoggerState(active, [heartbeats EXCEPT ![session_id] = now],
                   IF Cardinality(active) = 1 THEN 1 ELSE log_file, "None")

stop_logging_keeps_heartbeat(session_id) ==
    LET active == active_sessions \ {session_id}
    IN LoggerState(active, heartbeats,
                   IF active = {} THEN clear_logs_internal(log_file) ELSE log_file, "None")
\* lines 59-71: the body of stop_logging under the lock
stop_logging(session_id) ==
    LET active == active_sessions \ {session_id}
    IN LoggerState(active, [heartbeats EXCEPT ![session_id] = NoBeat],
                   IF active = {} THEN clear_logs_internal(log_file) ELSE log_file, "None")

\* lines 73-79: update_heartbeat
update_heartbeat(session_id) ==
    IF session_id \in active_sessions
    THEN LoggerState(active_sessions, [heartbeats EXCEPT ![session_id] = now], log_file, "True")
    ELSE LoggerState(active_sessions, heartbeats, log_file, "False")

\* lines 81-84: is_logging_active
is_logging_active ==
    LoggerState(active_sessions, heartbeats, log_file,
                IF Cardinality(active_sessions) > 0 THEN "True" ELSE "False")

\* lines 115-117: the line appended by log_request
log_append ==
    LoggerState(active_sessions, heartbeats,
                IF log_file = NoFile THEN 1 ELSE log_file + 1, "None")

\* lines 250-254: the sessions without a heartbeat for more than 20 seconds
TimedOut ==
    {s \in Sessions : heartbeats[s] # NoBeat
                      /\ now - heartbeats[s] > session_timeout_seconds * SecondTicks}

\* a request thread calls the logger: it comes to the with self.lock of the
\* method
Call(t, op, arg) ==
    /\ workers[t].pc = "idle"
    /\ op = "log_request" => log_file < MaxLogLines
    /\ workers' = [workers EXCEPT ![t] = [WorkerIdle EXCEPT !.pc = "acquire", !.op = op,
                                                          !.arg = arg]]
    /\ UNCHANGED <<now, aiVars, ipVars, resetVars, dailyVars,
                   active_sessions, heartbeats, lock, log_file>>

\* line 261: some time.sleep(5) is over and the cleaner comes to its with
\* self.lock
CleanerWake ==
    /\ workers[Cleaner].pc = "idle"
    /\ workers' = [workers EXCEPT ![Cleaner] = [WorkerIdle EXCEPT !.pc = "acquire",
                                                                !.op = "cleanup"]]
    /\ UNCHANGED <<now, aiVars, ipVars, resetVars, dailyVars,
                   active_sessions, heartbeats, lock, log_file>>

\* threading.Lock.acquire: granted only while no thread holds the lock, the
\* thread that asks included
Acquire(t) ==
    /\ workers[t].pc = "acquire"
    /\ lock = "free"
    /\ lock' = t
    /\ workers' = [workers EXCEPT ![t].pc = "locked"]
    /\ UNCHANGED <<now, aiVars, ipVars, resetVars, dailyVars,
                   active_sessions, heartbeats, log_file>>

\* the thread leaves the with block: the state the body wrote, the lock
\* released, the call returned
Leave(t, result, next) ==
    /\ active_sessions' = result.active
    /\ heartbeats' = result.beats
    /\ log_file' = result.file
    /\ lock' = "free"
    /\ workers' = [workers EXCEPT ![t] = [next EXCEPT !.ret = result.ret]]

\* the body of the with block the thread is in
Run(t) ==
    LET w == workers[t]
        returned == [w EXCEPT !.pc = "idle"]
    IN /\ w.pc = "locked"
       /\ lock = t
       /\ IF w.op = "start_logging" THEN Leave(t, start_logging(w.arg), returned)
          ELSE IF w.op = "stop_logging" THEN Leave(t, stop_logging(w.arg), returned)
          ELSE IF w.op = "update_heartbeat" THEN Leave(t, update_heartbeat(w.arg), returned)
          ELSE IF w.op = "is_logging_active" THEN Leave(t, is_logging_active, returned)
          ELSE IF w.op = "log_request"
          THEN \* lines 88-93: is_logging_active(), then the path test
               IF is_logging_active.ret = "True" /\ w.arg # ViewerPath
               THEN Leave(t, is_logging_active, [w EXCEPT !.pc = "acquire", !.op = "log_append"])
               ELSE Leave(t, LoggerState(active_sessions, heartbeats, log_file, "None"),
                          [returned EXCEPT !.op = "log_request"])
          ELSE IF w.op = "log_append"
          THEN Leave(t, log_append, [returned EXCEPT !.op = "log_request"])
          ELSE \* lines 249-259 of the cleaner: with no timed-out session it
               \* leaves the block and sleeps; otherwise it calls stop_logging
               \* for the first of them while it holds the lock
               IF TimedOut = {}
               THEN Leave(t, LoggerState(active_sessions, heartbeats, log_file, "None"),
                          returned)
               ELSE /\ \E s \in TimedOut :
                          workers' = [workers EXCEPT ![t] =
                                         [w EXCEPT !.pc = "acquire", !.op = "stop_logging",
                                                   !.arg = s, !.to_remove = TimedOut]]
                    /\ UNCHANGED <<active_sessions, heartbeats, lock, log_file>>
       /\ UNCHANGED <<now, aiVars, ipVars, resetVars, dailyVars>>

\* five seconds go by
SleepPasses ==
    /\ now + cleaner_sleep_seconds * SecondTicks <= MaxSleeps * cleaner_sleep_seconds * SecondTicks
    /\ now' = now + cleaner_sleep_seconds * SecondTicks
    /\ UNCHANGED <<limiterVars, chatVars>>

SessionOps == {"start_logging", "stop_logging", "update_heartbeat"}

NextLogger ==
    \/ \E t \in Callers, op \in SessionOps, s \in Sessions : Call(t, op, s)
    \/ \E t \in Callers : Call(t, "is_logging_active", "none")
    \/ \E t \in Callers, path \in {ViewerPath, ApiPath} : Call(t, "log_request", path)
    \/ CleanerWake
    \/ \E t \in Callers \cup {Cleaner} : Acquire(t)
    \/ \E t \in Callers \cup {Cleaner} : Run(t)
    \/ SleepPasses

SpecLogger == InitLimiter /\ [][NextLogger]_vars

\* every thread that can take a step takes it in the end, and a thread that
\* waits for the lock gets it if the lock is free again and again
SpecLoggerLive ==
    /\ SpecLogger
    /\ WF_vars(CleanerWake)
    /\ \A t \in Callers \cup {Cleaner} : SF_vars(Acquire(t)) /\ WF_vars(Run(t))

\* the session is active and its last heartbeat is more than 20 seconds old
Stale(s) ==
    /\ s \in active_sessions
    /\ now - heartbeats[s] > session_timeout_seconds * SecondTicks

\* C24 (as claimed): a session whose last heartbeat is more than 20 seconds
\* old is removed from active_sessions by the cleaner in the end; the cleaner
\* does not keep the lock forever, and a call of the logger that waits for the
\* lock completes.
C24_StaleRemovedAndLockReleased ==
    /\ \A s \in Sessions : Stale(s) ~> ~Stale(s)
    /\ (lock = Cleaner) ~> (lock = "free")
    /\ \A t \in Callers : (workers[t].pc = "acquire") ~> (workers[t].pc = "idle")

\* the cleaner waits in stop_logging for the lock it holds itself
CleanerBlocked ==
    /\ workers[Cleaner].pc = "acquire"
    /\ workers[Cleaner].op = "stop_logging"
    /\ lock = Cleaner

\* once the cleaner is blocked it stays so, with the session still active
BlockedForGood ==
    [][CleanerBlocked => (CleanerBlocked' /\ active_sessions' = active_sessions)]_vars

\* the cleaner blocked while a request thread waits for the lock in
\* log_request
CallerBehindBlockedCleaner ==
    /\ CleanerBlocked
    /\ workers["w1"].pc = "acquire"
    /\ workers["w1"].op = "log_request"

\* C29: in every reachable state of the logger the sessions with a heartbeat
\* entry are exactly active_sessions; is_logging_active returns True exactly
\* when active_sessions is not empty; update_heartbeat for a session that is
\* not active returns False and changes nothing.
C29_LoggerConsistent ==
    /\ []({s \in Sessions : heartbeats[s] # NoBeat} = active_sessions)
    /\ [][\A t \in Callers :
             (workers[t].pc = "locked" /\ workers'[t].pc = "idle") =>
                 /\ workers[t].op = "is_logging_active" =>
                       (workers'[t].ret = "True" <=> active_sessions # {})
                 /\ (workers[t].op = "update_heartbeat"
                        /\ workers[t].arg \notin active_sessions) =>
                       /\ workers'[t].ret = "False"
                       /\ active_sessions' = active_sessions
                       /\ heartbeats' = heartbeats
                       /\ log_file' = log_file]_vars

\* update_heartbeat for s2 has returned False while s1 is the one active
\* session, with its heartbeat entry
C29_Witness ==
    /\ workers["w1"].pc = "idle"
    /\ workers["w1"].op = "update_heartbeat"
    /\ workers["w1"].arg = "s2"
    /\ workers["w1"].ret = "False"
    /\ active_sessions = {"s1"}
    /\ heartbeats["s1"] # NoBeat
    /\ heartbeats["s2"] = NoBeat

----------------------------------------------------------------------------
(* The per-IP limiter of the blueprint *)

ip_limit == 100
ip_window_minutes == 15
IpWindowTicks == ip_window_minutes * 60 * 1000 * TicksPerMs

\* lines 25-28: the entries created before now - window_ms are deleted
CleanOld(limits, t) ==
    [k \in Ips |-> IF limits[k] # NoEntry /\ limits[k].reset_time < t - IpWindowTicks
                   THEN NoEntry ELSE limits[k]]

IpAtLimit_off_by_one(entry) == entry.count > ip_limit
\* line 33: if rate_limits[ip]['count'] >= limit
IpAtLimit(entry) == entry.count >= ip_limit

\* before_request of the blueprint for a request from ip: "passed" when it
\* returns None and the request goes on to its handler
before_request(ip) ==
    LET cleaned == CleanOld(rate_limits, now)
        result(status) ==
            [ip |-> ip, at |-> now, status |-> status,
             count_before |-> rate_limits[ip].count,
             had_entry |-> cleaned[ip] # NoEntry,
             created_before |-> ip_hist[ip].created]
    IN /\ ip # "ip1" => ip_hist[ip].admitted < MaxOtherCalls
       /\ IF cleaned[ip] = NoEntry
          THEN /\ rate_limits' = [cleaned EXCEPT ![ip] = [count |-> 1, reset_time |-> now]]
               /\ ip_last' = result("passed")
               /\ ip_hist' = [ip_hist EXCEPT ![ip] = [created |-> now, admitted |-> 1]]
          ELSE IF IpAtLimit(cleaned[ip])
          THEN /\ rate_limits' = cleaned
               /\ ip_last' = result("429")
               /\ UNCHANGED ip_hist
          ELSE /\ rate_limits' = [cleaned EXCEPT ![ip].count = @ + 1]
               /\ ip_last' = result("passed")
               /\ ip_hist' = [ip_hist EXCEPT ![ip].admitted = @ + 1]
       /\ UNCHANGED <<now, aiVars, loggerVars, resetVars, dailyVars>>

NextIp ==
    \/ \E ip \in Ips : before_request(ip)
    \/ Advance

SpecIp == InitLimiter /\ [][NextIp]_vars

IpRejected ==
    /\ ip_last.status = "429"
    /\ ip_last.at = ip_last.created_before + IpWindowTicks
    /\ rate_limits[ip_last.ip].count = ip_limit

----------------------------------------------------------------------------
(* Password reset *)

reset_expiry_seconds == 3600
ExpiryTicks == reset_expiry_seconds * SecondTicks

\* user[0]: the row of the SELECT read by position, as count_result[0]
RowReadByPosition == CountReadByPosition

\* the users a request can name by email, and an address nobody has
Emails == Users \cup {"nobody"}

ResetResult(kind, u, token, status, password) ==
    [kind |-> kind, user |-> u, token |-> token, at |-> now, status |-> status,
     password |-> password,
     latest |-> u \in Users /\ issued[u].token = token,
     used_before |-> u \in Users /\ issued[u].used,
     issued_at |-> IF u \in Users THEN issued[u].at ELSE 0 - 1,
     accounts_before |-> accounts]

\* POST /reset-password
reset_password(email) ==
    /\ tokens < MaxResetTokens
    /\ IF email \notin Users
       THEN /\ reset' = ResetResult("request", "none", NoToken, 200, 0)
            /\ UNCHANGED <<accounts, issued, tokens>>
       ELSE IF ~RowReadByPosition
       THEN /\ reset' = ResetResult("request", email, NoToken, 500, 0)
            /\ UNCHANGED <<accounts, issued, tokens>>
       ELSE /\ tokens' = tokens + 1
            /\ accounts' = [accounts EXCEPT ![email].reset_password_token = tokens + 1,
                                            ![email].reset_token_expiry = now + ExpiryTicks]
            /\ issued' = [issued EXCEPT ![email] = [token |-> tokens + 1, at |-> now,
                                                    used |-> FALSE]]
            /\ reset' = ResetResult("request", email, tokens + 1, 200, 0)
    /\ UNCHANGED <<now, aiVars, loggerVars, ipVars, dailyVars>>

TokenMatches_never_expires(account, token, t) ==
    account.reset_password_token = token
\* WHERE reset_password_token = ? AND reset_token_expiry > ?
TokenMatches(account, token, t) ==
    /\ account.reset_password_token = token
    /\ account.reset_token_expiry > t

\* POST /reset-password-confirm
reset_password_confirm(token, new_password) ==
    LET found == {u \in Users : TokenMatches(accounts[u], token, now)}
        holder == {u \in Users : issued[u].token = token}
        about == IF holder = {} THEN "none" ELSE CHOOSE u \in holder : TRUE
    IN /\ IF found = {}
          THEN /\ reset' = ResetResult("confirm", about, token, 400, new_password)
               /\ UNCHANGED <<accounts, issued>>
          ELSE IF ~RowReadByPosition
          THEN /\ reset' = ResetResult("confirm", about, token, 500, new_password)
               /\ UNCHANGED <<accounts, issued>>
          ELSE \E u \in found :
                  /\ accounts' = [accounts EXCEPT ![u] =
                                     [password_hash |-> new_password,
                                      reset_password_token |-> NoToken,
                                      reset_token_expiry |-> NoExpiry,
                                      changes |-> @.changes + 1]]
                  /\ issued' = [issued EXCEPT ![u].used = TRUE]
                  /\ reset' = ResetResult("confirm", u, token, 200, new_password)
       /\ UNCHANGED <<now, tokens, aiVars, loggerVars, ipVars, dailyVars>>

\* the moments around each hour
ResetTimes == {k * ExpiryTicks + o : k \in 0..MaxResetHours, o \in {0, 1}}
                \cup {k * ExpiryTicks - 1 : k \in 1..MaxResetHours}

ResetTimePasses ==
    /\ \E t \in ResetTimes : t > now /\ now' = t
    /\ UNCHANGED <<limiterVars, chatVars>>

NewPasswords == {1, 2}

NextReset ==
    \/ \E email \in Emails : reset_password(email)
    \/ \E token \in 1..(MaxResetTokens + 1), p \in NewPasswords :
          reset_password_confirm(token, p)
    \/ ResetTimePasses

SpecReset == InitStore /\ [][NextReset]_vars

ExpiredTokenRefused ==
    /\ reset.kind = "confirm"
    /\ reset.status = 400
    /\ reset.latest
    /\ ~reset.used_before
    /\ reset.at = reset.issued_at + ExpiryTicks

\* on PostgreSQL the request for a registered address is answered 500 and no
\* token is stored
NoTokenOnPostgresql ==
    database = "postgresql" =>
        /\ tokens = 0
        /\ (reset.kind = "request" /\ reset.user # "none") => reset.status = 500

----------------------------------------------------------------------------
(* validate_blood_pressure *)

\* DailyStatCreateSchema: the readings a request may carry
systolic_min == 50
systolic_max == 250
diastolic_min == 30
diastolic_max == 150
Systolics == systolic_min..systolic_max
Diastolics == diastolic_min..diastolic_max

validate_blood_pressure(systolic, diastolic) ==
    IF systolic < 120 /\ diastolic < 80 THEN "good"
    ELSE IF (systolic >= 120 /\ systolic <= 129) /\ diastolic < 80 THEN "warning"
    ELSE IF (systolic >= 130 /\ systolic <= 139) \/ (diastolic >= 80 /\ diastolic <= 89)
         THEN "danger"
    ELSE IF (systolic >= 140 /\ systolic <= 179) \/ (diastolic >= 90 /\ diastolic <= 119)
         THEN "critical"
    ELSE "emergency"

\* a reading of a request is classified
ClassifyReading ==
    /\ bp = NoReading
    /\ \E systolic \in Systolics, diastolic \in Diastolics :
          bp' = [systolic |-> systolic, diastolic |-> diastolic,
                 status |-> validate_blood_pressure(systolic, diastolic)]
    /\ UNCHANGED <<now, aiVars, loggerVars, ipVars, resetVars, daily_stats, daily>>

NextPressure == ClassifyReading

SpecPressure == InitLimiter /\ [][NextPressure]_vars

\* the order the severities are compared in
Severity(status) ==
    CASE status = "good" -> 0
      [] status = "warning" -> 1
      [] status = "danger" -> 2
      [] status = "critical" -> 3
      [] status = "emergency" -> 4

\* C27: no reading with a higher systolic value and the same diastolic value,
\* or a higher diastolic value and the same systolic value, is classified less
\* severe than the reading classified, and a reading with systolic >= 180 or
\* diastolic >= 120 is classified emergency.
C27_PressureMonotone ==
    bp # NoReading =>
        /\ \A s \in Systolics :
              s >= bp.systolic =>
                 Severity(validate_blood_pressure(s, bp.diastolic)) >= Severity(bp.status)
        /\ \A d \in Diastolics :
              d >= bp.diastolic =>
                 Severity(validate_blood_pressure(bp.systolic, d)) >= Severity(bp.status)
        /\ (bp.systolic >= 180 \/ bp.diastolic >= 120) => bp.status = "emergency"

\* systolic 180 with diastolic 85 is classified danger
CrisisClassifiedDanger ==
    bp.systolic = 180 /\ bp.diastolic = 85 /\ bp.status = "danger"

\* systolic 140 is critical with diastolic 79 and only danger with diastolic 85
HigherDiastolicLessSevere ==
    /\ bp.systolic = 140 /\ bp.diastolic = 79 /\ bp.status = "critical"
    /\ validate_blood_pressure(140, 85) = "danger"

\* with diastolic below 80 the classification follows the claimed order
MonotoneBelowEighty ==
    (bp # NoReading /\ bp.diastolic < 80) =>
        /\ \A s \in Systolics :
              s >= bp.systolic =>
                 Severity(validate_blood_pressure(s, bp.diastolic)) >= Severity(bp.status)
        /\ bp.systolic >= 180 => bp.status = "emergency"

----------------------------------------------------------------------------
(* POST /daily-stats *)

Dates == {1, 2}

\* SELECT id FROM daily_stats WHERE user_id = ? AND date = ?
Existing(table, u, date) ==
    \E i \in 1..Len(table) : table[i].user_id = u /\ table[i].date = date

\* the request arrives: schema.load (a body it refuses raises, and the
\* handler answers 500), g.user, stat_id, date
BeginCreate(d, u, date, valid) ==
    /\ daily[d].pc \in {"idle", "done"}
    /\ daily[d].n < MaxDailyCalls
    /\ daily' = [daily EXCEPT ![d] =
                    IF valid
                    THEN [pc |-> "select", user |-> u, date |-> date, status |-> 0,
                          existed |-> FALSE, n |-> @.n + 1]
                    ELSE [pc |-> "done", user |-> u, date |-> date, status |-> 500,
                          existed |-> FALSE, n |-> @.n + 1]]
    /\ UNCHANGED <<now, aiVars, loggerVars, ipVars, resetVars, daily_stats, bp>>

\* existing = cursor.fetchone(); 409 when a row is found
SelectExisting(d) ==
    /\ daily[d].pc = "select"
    /\ LET existing == Existing(daily_stats, daily[d].user, daily[d].date)
       IN daily' = [daily EXCEPT ![d] =
                       IF existing
                       THEN [@ EXCEPT !.pc = "done", !.status = 409, !.existed = TRUE]
                       ELSE [@ EXCEPT !.pc = "insert"]]
    /\ UNCHANGED <<now, aiVars, loggerVars, ipVars, resetVars, daily_stats, bp>>

\* UNIQUE(user_id, date)
UniqueViolated(table, u, date) == Existing(table, u, date)

\* INSERT, commit, the row read back and the 201; an insert the table
\* refuses raises and the handler answers 500
InsertStat(d) ==
    /\ daily[d].pc = "insert"
    /\ IF UniqueViolated(daily_stats, daily[d].user, daily[d].date)
       THEN /\ daily' = [daily EXCEPT ![d].pc = "done", ![d].status = 500,
                                      ![d].existed = TRUE]
            /\ UNCHANGED daily_stats
       ELSE /\ daily_stats' = Append(daily_stats,
                                     [id |-> <<d, daily[d].n>>, user_id |-> daily[d].user,
                                      date |-> daily[d].date])
            /\ daily' = [daily EXCEPT ![d].pc = "done", ![d].status = 201]
    /\ UNCHANGED <<now, aiVars, loggerVars, ipVars, resetVars, bp>>

NextDaily ==
    \/ \E d \in DailyRequests, u \in Users, date \in Dates, valid \in BOOLEAN :
          BeginCreate(d, u, date, valid)
    \/ \E d \in DailyRequests : SelectExisting(d)
    \/ \E d \in DailyRequests : InsertStat(d)

SpecDaily == InitLimiter /\ [][NextDaily]_vars

RowsFor(u, date) ==
    {i \in 1..Len(daily_stats) : daily_stats[i].user_id = u /\ daily_stats[i].date = date}

\* at most one row per (user, date)
OneRowPerUserDate ==
    \A u \in Users, date \in Dates : Cardinality(RowsFor(u, date)) <= 1

\* C28: whatever the interleaving of the requests, no (user, date) has two
\* rows, and every valid create request that met a row for its (user, date)
\* was answered 409.
C28_OneRowAndConflict ==
    /\ OneRowPerUserDate
    /\ \A d \in DailyRequests :
          (daily[d].pc = "done" /\ daily[d].existed) => daily[d].status = 409

\* two requests for the same (user, date) both passed the SELECT; the second
\* INSERT was refused and answered 500
DuplicateAnswered500 ==
    \E d, e \in DailyRequests :
        /\ d # e
        /\ daily[d].user = daily[e].user /\ daily[d].date = daily[e].date
        /\ daily[d].pc = "done" /\ daily[d].status = 201
        /\ daily[e].pc = "done" /\ daily[e].status = 500 /\ daily[e].existed
        /\ daily[d].n = 1 /\ daily[e].n = 1

\* a request that arrives after the row was committed is answered 409
LaterDuplicateAnswered409 ==
    \E d \in DailyRequests : daily[d].pc = "done" /\ daily[d].status = 409

====
